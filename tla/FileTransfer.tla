---------------------------- MODULE FileTransfer ----------------------------
(***************************************************************************)
(* What one file transfer over ssh promises its caller, and nothing else:  *)
(* a staged destination goes from the old file to the new one in a single  *)
(* step, a destination written in place may be seen torn on the way, and   *)
(* success is reported only once the whole new file is there.  A transfer  *)
(* that is reported as failed (or whose caller died) may still take        *)
(* effect, before the report or after it.                                  *)
(***************************************************************************)
VARIABLES
  staged,  \* is the destination replaced by a rename?
  dest,    \* what a reader of the destination finds
  result   \* what the caller knows

vars == <<staged, dest, result>>

Contents == {"old", "torn", "new"}
Results == {"pending", "ok", "failed", "died"}

Init == staged \in BOOLEAN /\ dest = "old" /\ result = "pending"

Replace == /\ dest = "old" /\ result # "ok"
           /\ dest' = "new"
           /\ UNCHANGED <<staged, result>>

Overwrite == /\ ~staged /\ dest # "new" /\ result # "ok"
             /\ dest' \in {"torn", "new"}
             /\ UNCHANGED <<staged, result>>

\* Receiving ends and the caller learns it in one step: a download's rename
\* runs in the caller.
Succeed == /\ result = "pending"
           /\ dest' = "new" /\ (staged \/ dest = "new")
           /\ result' = "ok"
           /\ UNCHANGED staged

Fail == /\ result = "pending"
        /\ result' \in {"failed", "died"}
        /\ UNCHANGED <<staged, dest>>

Next == Replace \/ Overwrite \/ Succeed \/ Fail

Spec == Init /\ [][Next]_vars
=============================================================================
