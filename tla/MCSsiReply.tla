----------------------------- MODULE MCSsiReply -----------------------------
(* Instances of SsiReply for TLC. *)
EXTENDS SsiReply, TLC

\* x<!--#t--><!--# u -->y
Adjacent == <<"x", "<", "!", "-", "-", "#", "t", "-", "-", ">",
              "<", "!", "-", "-", "#", " ", "u", " ", "-", "-", ">", "y">>
\* <!--#--><b><!--#ttt--><!--#w--> followed by a newline
Ignored == <<"<", "!", "-", "-", "#", "-", "-", ">", "<", "b", ">",
             "<", "!", "-", "-", "#", "t", "t", "t", "-", "-", ">",
             "<", "!", "-", "-", "#", "w", "-", "-", ">", " ">>
FourPages == << [text |-> Adjacent, tagCheck |-> TRUE],
                [text |-> Ignored, tagCheck |-> TRUE],
                [text |-> Adjacent, tagCheck |-> FALSE],
                [text |-> <<>>, tagCheck |-> TRUE] >>
Headers == <<2, 1, 2>>
Inserts == <<"t">> :> 3 @@ <<"u">> :> 0
=============================================================================
