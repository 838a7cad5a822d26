----------------------------- MODULE AtomicUpload -----------------------------
(****************************************************************************)
(* What a caller of upload_file, upload_fileobj or copy may rely on: the key *)
(* holds either what it held before or the whole new content, a call that    *)
(* returns has stored the content, and nothing is stored after it has ended. *)
(****************************************************************************)
VARIABLES
    object,   \* "previous", "whole", or "torn": anything else
    outcome   \* "running", "returned" or "raised"

vars == <<object, outcome>>

Init == object = "previous" /\ outcome = "running"

Store ==
    /\ outcome = "running"
    /\ object' = "whole"
    /\ UNCHANGED outcome

\* The request that stores the content may be the last thing the call awaits.
Return ==
    /\ outcome = "running"
    /\ outcome' = "returned"
    /\ object' = "whole"

\* A call that raises may still have stored the content: the response was lost
\* or what came after it failed.
Raise ==
    /\ outcome = "running"
    /\ outcome' = "raised"
    /\ object' \in {object, "whole"}

Next == Store \/ Return \/ Raise

Spec == Init /\ [][Next]_vars

=============================================================================
