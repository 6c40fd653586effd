----------------------------- MODULE MCTeamDocs -----------------------------
(* Instances of TeamDocs for TLC. *)
EXTENDS TeamDocs, TLC

CONSTANTS empty, long, picture

\* No chunk, two chunks; a binary file has a stub of one chunk.
MCChunkCount == [b \in Bodies |->
                    CASE b = empty -> 0 [] b = long -> 2 [] OTHER -> 1]

\* Paths are interchangeable.
Symmetry == Permutations(Paths)

\* What a request was about does not matter once it and its index task are over.
View ==
    <<docs, blobs, chunks, loci, step, taskVars, disturbed,
      [r \in Requests |-> IF step[r] \in {"write", "finish"} \/ task[r] # "none"
                          THEN req[r] ELSE NoRequest]>>
=============================================================================
