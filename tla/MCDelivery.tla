------------------------------ MODULE MCDelivery ------------------------------
(* A small instance of Delivery.                                             *)
EXTENDS Delivery, TLC

CONSTANTS a, b

\* Codes: 1 stands for the characters ' - and . that sort before "/", 2 for
\* "/", 3 for a letter.
MCSlash == 2
MCMetaName == <<9>>
A == <<3>>
AInA == <<3, 2, 3>>
ADashA == <<3, 1, 3>>

MCAgents == {a, b}

\* Nothing; one file; two, also with a negative size; a file and one inside it,
\* alone and with a name that sorts between them.
MCManifests == { <<>>, A :> 1, A :> 3, (A :> 2) @@ (ADashA :> 2), (A :> 4) @@ (ADashA :> -1),
                 (A :> 1) @@ (AInA :> 1), (A :> 1) @@ (ADashA :> 1) @@ (AInA :> 1) }

MCConfigs == { [count |-> 3, file |-> 3, total |-> 4, inline |-> 1],
               [count |-> 3, file |-> NoCap, total |-> 3, inline |-> 2] }

Symmetry == Permutations(MCAgents)

\* The answer of a broadcast has no influence on what comes after it.
WithoutAnswer == <<active, gone, config, session, uploads, inbox, late>>
=============================================================================
