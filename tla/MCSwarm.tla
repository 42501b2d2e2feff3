------------------------------- MODULE MCSwarm -------------------------------
(***************************************************************************)
(* Instances of Swarm for TLC: who has what, and who asks for what.  c1    *)
(* and c2 are peers whose users type GETs, s1 is the seed of the master    *)
(* file.                                                                   *)
(***************************************************************************)
EXTENDS Swarm

CONSTANTS c1, c2, s1, A, B, C

Ln(id, hash) == [id |-> id, hash |-> hash]

\* The master data file: A, then B, then C.
MasterFile == (0 :> A) @@ (1 :> B) @@ (2 :> C)

\* The peers are c1, c2 and s1, or two of them.
Files(f1, f2, f3) == [p \in Peers |-> IF p = c1 THEN f1 ELSE IF p = c2 THEN f2 ELSE f3]

\* transfer: c1 fetches one chunk from s1.
TransferHas == Files(<< >>, << >>, <<Ln(0, A)>>)
TransferGet == Files(<<<<Ln(0, A)>>>>, << >>, << >>)

\* crosstalk: c1 fetches two chunks from s1, one after the other, and owns the
\* third one it asks for.
CrosstalkHas == Files(<<Ln(2, C)>>, << >>, <<Ln(0, A), Ln(1, B), Ln(2, C)>>)
CrosstalkGet == Files(<<<<Ln(0, A), Ln(2, C), Ln(1, B)>>>>, << >>, << >>)

\* contention: c1 and c2 want the same chunk of s1; c1 owns part of what it asks for.
ContentionHas == Files(<<Ln(1, B)>>, << >>, <<Ln(0, A), Ln(1, B)>>)
ContentionGet == Files(<<<<Ln(1, B), Ln(0, A)>>>>, <<<<Ln(0, A)>>>>, << >>)

\* regets: the user of c1 asks for the same chunk at another position before
\* the first GET is done.
RegetHas == Files(<< >>, << >>, <<Ln(0, A)>>)
RegetGet == Files(<<<<Ln(0, A)>>, <<Ln(1, A)>>>>, << >>, << >>)
==============================================================================
