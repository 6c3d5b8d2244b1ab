---------------------------- MODULE ManifestNames ----------------------------
(***************************************************************************)
(* The collection checks of validate_manifest on the names of a manifest.  *)
(* A name is the sequence of its character codes; single names are taken   *)
(* to have passed validate_path.                                           *)
(***************************************************************************)
EXTENDS Naturals, Sequences

CONSTANTS
    Slash,     \* the code of "/"
    MetaName   \* "meta.json"

ASSUME SlashAssumption == Slash \in Nat

StartsWith(y, x) == Len(x) <= Len(y) /\ SubSeq(y, 1, Len(x)) = x

\* Python's order on strings.
Before(x, y) ==
    \/ x # y /\ StartsWith(y, x)
    \/ \E i \in 1..Len(x) : /\ i <= Len(y) /\ x[i] < y[i]
                            /\ \A k \in 1..(i - 1) : x[k] = y[k]

\* curr.startswith(prev + "/"): the file x would have to be a directory for y.
Inside(y, x) == StartsWith(y, Append(x, Slash))

\* Faulty variant of Neighbours: the first pair is left out of the loop.
NeighboursButFirst(S, x, y) ==
    /\ Before(x, y)
    /\ ~ \E z \in S : Before(x, z) /\ Before(z, y)
    /\ \E z \in S : Before(z, x)

\* x and y follow each other in sorted(S).
Neighbours(S, x, y) == /\ Before(x, y)
                       /\ ~ \E z \in S : Before(x, z) /\ Before(z, y)

\* validate_manifest: the reserved name, then each pair of neighbours.
ValidNames(S) == /\ MetaName \notin S
                 /\ \A x, y \in S : Neighbours(S, x, y) => ~Inside(y, x)

-----------------------------------------------------------------------------
(* What the check is for, and where it falls short.                         *)

\* A file and a directory of the same name cannot both be written.
Collide(S) == \E x, y \in S : Inside(y, x)

\* Some name continues another one with a character that sorts before "/".
Intervenes(S) == \E x, z \in S : /\ StartsWith(z, x) /\ Len(x) < Len(z)
                                 /\ z[Len(x) + 1] < Slash
=============================================================================
