--------------------------- MODULE UpdateService ---------------------------
(***************************************************************************)
(* What a firmware update promises to whoever clicks for one, without the  *)
(* two threads, their semaphores, the buffer, the packets and the server   *)
(* (webserver_update.c 31-94, tftp_client.c 92-126, 275-333, 345-538): an  *)
(* update takes the file of the newest click page by page, each page once  *)
(* and in order, and either marks the file for installation when all were  *)
(* taken or gives up and forgets what was clicked meanwhile.  Nobody asks  *)
(* whether a page reached the flash: one that is not written, or only in   *)
(* part, counts like the others.  TftpClient implements this as long as    *)
(* the packets stay in order.                                              *)
(***************************************************************************)
EXTENDS Integers, Sequences

CONSTANT Size  \* Size[f]: pages of the file of the f-th click

VARIABLES
  phase,      \* "idle", "loading", "failing", "failed", "done" or "off"
  wanted,     \* the file of the newest click, or NoFile
  shown,      \* the status on the page
  file,       \* the file last taken, or NoFile
  loaded,     \* the number of its pages that were taken
  flash,      \* what was written of them
  torn,       \* less was written than was taken
  disturbed,  \* there was a click while it was loaded
  marked      \* what is to be installed: a file and a number of pages

vars == <<phase, wanted, shown, file, loaded, flash, torn, disturbed, marked>>

NoFile   == 0
Fragment == <<NoFile, 0>>
Nothing  == [file |-> NoFile, size |-> 0]

Init ==
  /\ phase = "idle" /\ wanted = NoFile /\ shown = "empty"
  /\ file = NoFile /\ loaded = 0 /\ flash = <<>> /\ torn = FALSE
  /\ disturbed = FALSE /\ marked = Nothing

Move(from, to) == phase = from /\ phase' = to

Click(f) ==
  /\ phase # "off"
  /\ wanted' = f
  /\ shown' = "doing"
  /\ disturbed' = (disturbed \/ phase = "loading")
  /\ UNCHANGED <<phase, file, loaded, flash, torn, marked>>

Start ==
  /\ wanted # NoFile
  /\ Move("idle", "loading")
  /\ file' = wanted
  /\ torn' = FALSE
  /\ UNCHANGED <<wanted, shown, loaded, flash, disturbed, marked>>

\* the next page of the file, and no other
Store ==
  /\ phase = "loading" /\ loaded < Size[file]
  /\ loaded' = loaded + 1
  /\ \/ flash' = Append(flash, <<file, loaded + 1>>) /\ UNCHANGED torn
     \/ flash' \in {flash, Append(flash, Fragment)} /\ torn' = TRUE
  /\ UNCHANGED <<phase, wanted, shown, file, disturbed, marked>>

\* the whole file; a click may have falsified the count of its pages
Install ==
  /\ Move("loading", "done")
  /\ loaded = Size[file]
  /\ \E n \in 0 .. loaded :
       /\ n = loaded \/ disturbed
       /\ marked' = [file |-> file, size |-> n]
  /\ shown' = "succeed"
  /\ UNCHANGED <<wanted, file, loaded, flash, torn, disturbed>>

\* what was taken counts for nothing
GiveUp ==
  /\ Move("loading", "failing")
  /\ loaded' = 0 /\ flash' = <<>>
  /\ UNCHANGED <<wanted, shown, file, torn, disturbed, marked>>

\* the click that failed is forgotten, and any that came meanwhile
Forget ==
  /\ Move("failing", "failed")
  /\ wanted' = NoFile
  /\ UNCHANGED <<shown, file, loaded, flash, torn, disturbed, marked>>

Report ==
  /\ Move("failed", "idle")
  /\ shown' = "failed"
  /\ disturbed' = FALSE
  /\ UNCHANGED <<wanted, file, loaded, flash, torn, marked>>

Restart ==
  /\ Move("done", "off")
  /\ shown' = "empty"
  /\ UNCHANGED <<wanted, file, loaded, flash, torn, disturbed, marked>>

Next ==
  \/ \E f \in 1 .. Len(Size) : Click(f)
  \/ Start \/ Store \/ Install \/ GiveUp \/ Forget \/ Report \/ Restart

Spec == Init /\ [][Next]_vars
=============================================================================
