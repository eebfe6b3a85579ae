--------------------------- MODULE TftpRefinement ---------------------------
(***************************************************************************)
(* TftpClient implements UpdateService: an update is loaded from the       *)
(* request to the check of the file head, and what was taken and written   *)
(* counts from the request on until the transfer fails.                    *)
(***************************************************************************)
EXTENDS TftpClient

PhaseOf ==
  CASE Transferring     -> "loading"
    [] pc = "fail"      -> "failing"
    [] pc = "failed"    -> "failed"
    [] pc = "reset"     -> "done"
    [] pc = "off"       -> "off"
    [] OTHER            -> "idle"

Counts == Transferring \/ pc \in {"reset", "off"}

\* the blocks of this transfer that went through tftp_handle_data
Handled == IF Pending THEN conn.prev - 1 ELSE conn.prev

Taken  == IF Counts THEN Handled ELSE 0
Stored == IF Counts THEN image.flash ELSE <<>>

Service == INSTANCE UpdateService WITH
  phase <- PhaseOf, wanted <- filename, shown <- status, file <- asked, loaded <- Taken,
  flash <- Stored, torn <- torn, disturbed <- overlapped, marked <- update

\* The update behaves like the one its users know: the file of the newest
\* click is taken page by page, each once and in order, and is marked for
\* installation when it is complete; a failure is reported and forgets the
\* clicks that came meanwhile.  What the flash stores of a page is counted as
\* the page (tftp_client.c 92-126, 275-333, 345-538).
ServiceSpec == Service!Spec
=============================================================================
