------------------------- MODULE JwtRotationProofs --------------------------
(***************************************************************************)
(* The key slots for any set of keys, any lifetimes and any number of      *)
(* tokens.                                                                 *)
(***************************************************************************)
EXTENDS JwtRotation, TLAPS

\* Ageing a token by a change of key.
LEMMA HopType == ASSUME NEW t \in Token
                 PROVE  /\ Hop(t) \in Token
                        /\ Hop(t).key = t.key /\ Hop(t).left = t.left
                        /\ Hop(t).current = t.current
                        /\ Hop(t).dropped = t.dropped
                        /\ Hop(t).hops # 0
                        /\ Hop(t).hops = 1 => t.hops = 0
BY DEF Hop, Token

\* What a restart makes of a token.
Restarted(t) == [(IF file = primary THEN t ELSE Hop(t))
                    EXCEPT !.dropped = t.key \notin {file, second}]

\* It keeps key and issue, and may count as a change of key.
LEMMA RestartType == ASSUME NEW t \in Token
                     PROVE  /\ Restarted(t) \in Token
                            /\ Restarted(t).key = t.key
                            /\ Restarted(t).current = t.current
                            /\ Restarted(t).dropped = (t.key \notin {file, second})
                            /\ Restarted(t).hops
                                 = IF file = primary THEN t.hops ELSE Hop(t).hops
<1> DEFINE u == IF file = primary THEN t ELSE Hop(t)
           b == t.key \notin {file, second}
<1>1. u \in Token /\ u.key = t.key /\ u.current = t.current
  BY HopType
<1>2. b \in BOOLEAN
  OBVIOUS
<1>3. Restarted(t) = [u EXCEPT !.dropped = b]
  BY DEF Restarted
<1>4. u.hops = IF file = primary THEN t.hops ELSE Hop(t).hops
  OBVIOUS
<1> HIDE DEF u, b
<1>5. ASSUME NEW c \in BOOLEAN
      PROVE  /\ [u EXCEPT !.dropped = c] \in Token
             /\ [u EXCEPT !.dropped = c].key = u.key
             /\ [u EXCEPT !.dropped = c].current = u.current
             /\ [u EXCEPT !.dropped = c].dropped = c
             /\ [u EXCEPT !.dropped = c].hops = u.hops
  BY <1>1 DEF Token
<1>6. /\ Restarted(t) \in Token
      /\ Restarted(t).key = u.key
      /\ Restarted(t).current = u.current
      /\ Restarted(t).dropped = b
      /\ Restarted(t).hops = u.hops
  BY <1>2, <1>3, <1>5, Zenon
<1> USE DEF u, b
<1> QED
  BY <1>1, <1>4, <1>6, Zenon

\* Restart rewrites every token that way.
LEMMA RestartTokens == ASSUME Restart PROVE tokens' = {Restarted(t) : t \in tokens}
BY DEF Restart, Restarted

\* Every step keeps the shape of slots and tokens.
LEMMA TypeKept == ASSUME TypeOK, [Next]_vars PROVE TypeOK'
<1> USE KeyAssumption, TTLAssumption
<1>1. ASSUME NEW k \in Keys \cup {NoKey}, WriteKeyFile(k) \/ ConfigureSecondary(k)
      PROVE  TypeOK'
  BY <1>1 DEF TypeOK, WriteKeyFile, ConfigureSecondary
<1>2. CASE Rotate
  <2>1. tokens' \subseteq Token
    BY <1>2, HopType DEF TypeOK, Rotate
  <2> QED
    BY <1>2, <2>1 DEF TypeOK, Rotate
<1>3. CASE Restart
  <2>1. tokens' \subseteq Token
    BY <1>3, RestartTokens, RestartType DEF TypeOK
  <2> QED
    BY <1>3, <2>1 DEF TypeOK, Restart
<1>4. CASE Issue
  <2>1. ASSUME NEW b \in BOOLEAN
        PROVE  [key |-> boot, left |-> TokenTTL, current |-> b, hops |-> 0,
                               dropped |-> FALSE] \in Token
    BY DEF TypeOK, Token
  <2>2. [key |-> boot, left |-> TokenTTL, current |-> boot = primary, hops |-> 0,
                               dropped |-> FALSE] \in Token
    BY <2>1, Zenon
  <2>3. tokens' \subseteq Token
    BY <1>4, <2>2, Zenon DEF TypeOK, Issue
  <2> QED
    BY <1>4, <2>3 DEF TypeOK, Issue
<1>5. CASE DropSecondary
  BY <1>5 DEF TypeOK, DropSecondary
<1>6. CASE Tick
  <2>1. tokens' \subseteq Token
    BY <1>6 DEF TypeOK, Tick, Token
  <2> QED
    BY <1>6, <2>1 DEF TypeOK, Tick
<1>7. CASE UNCHANGED vars
  BY <1>7 DEF TypeOK, vars
<1> QED
  BY <1>1, <1>2, <1>3, <1>4, <1>5, <1>6, <1>7 DEF Next

\* The slots hold keys and nothing else, whatever the operator puts in the file.
THEOREM TypeCorrect == Spec => []TypeOK
<1>1. Init => TypeOK
  BY KeyAssumption DEF Init, TypeOK
<1>2. TypeOK /\ [Next]_vars => TypeOK'
  BY TypeKept
<1> QED
  BY <1>1, <1>2, PTL DEF Spec

-----------------------------------------------------------------------------
(* A token signed with the primary of its time is signed with the primary    *)
(* until that changes; after one change it may depend on the secondary, but  *)
(* then it has spent at least as much of its life as the overlap has run.    *)
(* Only a restart that does not find its key in the configuration drops it.  *)

Held(t) == /\ t.hops = 0 => t.key = primary
           /\ t.hops = 1 /\ ~t.dropped =>
                \/ t.key = primary
                \/ /\ t.key = secondary
                   /\ since = Never \/ since + t.left <= TokenTTL

HeldInv == \A t \in tokens : t.current => Held(t)

\* Rotations, restarts and time keep the keys of live tokens in a slot.
LEMMA HeldKept ==
    ASSUME OverlapTTL >= TokenTTL, TypeOK, HeldInv, [Next]_vars
    PROVE  HeldInv'
<1> USE KeyAssumption, TTLAssumption
<1> SUFFICES ASSUME NEW t \in tokens', t.current
             PROVE  Held(t)'
  BY DEF HeldInv
<1>1. CASE Rotate
  <2>1. PICK u \in tokens : t = Hop(u)
    BY <1>1 DEF Rotate
  <2>2. u \in Token /\ u.current /\ Held(u)
    BY <2>1, HopType DEF TypeOK, HeldInv
  <2>3. t.hops # 0 /\ (t.hops = 1 => t.key = primary /\ t.left \in 1..TokenTTL)
    BY <2>1, <2>2, HopType DEF Held, Token
  <2> QED
    BY <1>1, <2>3 DEF Rotate, Held
<1>2. CASE Restart
  <2>1. PICK u \in tokens : t = Restarted(u)
    BY <1>2, RestartTokens
  <2>2. u \in Token
    BY DEF TypeOK
  <2>3. /\ t.key = u.key /\ t.current = u.current
        /\ t.dropped = (t.key \notin {file, second})
        /\ t.hops = IF file = primary THEN u.hops ELSE Hop(u).hops
    BY <2>1, <2>2, RestartType, Zenon
  <2>4. primary' = file /\ secondary' = second /\ since' = Never
    BY <1>2 DEF Restart
  <2>5. Held(u)
    BY <2>3, Zenon DEF HeldInv
  <2>6. t.hops = 0 => file = primary /\ u.hops = 0
    BY <2>2, <2>3, HopType
  <2>7. t.hops = 0 => t.key = file
    BY <2>3, <2>5, <2>6 DEF Held
  <2>8. ~t.dropped => t.key \in {file, second}
    BY <2>3, Zenon
  <2> QED
    BY <2>4, <2>7, <2>8 DEF Held
<1>3. CASE Issue
  <2>1. CASE t \in tokens
    BY <1>3, <2>1 DEF Issue, HeldInv, Held
  <2>2. CASE t = [key |-> boot, left |-> TokenTTL, current |-> boot = primary, hops |-> 0,
                               dropped |-> FALSE]
    <3>1. t.key = boot /\ t.hops = 0 /\ t.current = (boot = primary)
      BY <2>2
    <3>2. boot = primary
      BY <3>1, Zenon
    <3> QED
      BY <1>3, <3>1, <3>2 DEF Issue, Held
  <2> QED
    BY <1>3, <2>1, <2>2 DEF Issue
<1>4. CASE DropSecondary
  <2>1. t \in Token /\ Held(t)
    BY <1>4 DEF DropSecondary, TypeOK, HeldInv
  <2>2. since \in Nat /\ since >= OverlapTTL
    BY <1>4 DEF DropSecondary, OverlapOver, TypeOK
  <2>3. t.hops = 1 /\ ~t.dropped => t.key = primary
    BY <2>1, <2>2 DEF Held, Token
  <2> QED
    BY <1>4, <2>1, <2>3 DEF DropSecondary, Held
<1>5. CASE Tick
  <2>1. PICK u \in tokens : u.left > 1 /\ t = [u EXCEPT !.left = @ - 1]
    BY <1>5 DEF Tick
  <2>2. u \in Token
    BY DEF TypeOK
  <2>3. /\ t.key = u.key /\ t.hops = u.hops /\ t.left = u.left - 1
        /\ t.current = u.current /\ t.dropped = u.dropped
    BY <2>1, <2>2 DEF Token
  <2>4. Held(u)
    BY <2>3 DEF HeldInv
  <2>5. since' = Never \/ (since \in Nat /\ since' \in {since, since + 1})
    BY <1>5 DEF Tick, TypeOK
  <2>6. since' = Never => since = Never
    BY <1>5 DEF Tick, TypeOK
  <2> QED
    BY <1>5, <2>2, <2>3, <2>4, <2>5, <2>6 DEF Tick, Held, Token
<1>6. CASE UNCHANGED vars
  BY <1>6 DEF vars, HeldInv, Held
<1>7. ASSUME NEW k \in Keys \cup {NoKey}, WriteKeyFile(k) \/ ConfigureSecondary(k)
      PROVE  Held(t)'
  BY <1>7 DEF WriteKeyFile, ConfigureSecondary, HeldInv, Held
<1> QED
  BY <1>1, <1>2, <1>3, <1>4, <1>5, <1>6, <1>7 DEF Next

\* With an overlap at least as long as the tokens live, no token signed with the
\* primary key of its time is refused because that key changed once, unless the
\* last restart found that key in neither place of the configuration.
THEOREM TokensSurviveRotation == Spec => []SurvivesRotation
<1>1. ASSUME OverlapTTL >= TokenTTL PROVE Spec => []HeldInv
  <2>1. Init => HeldInv
    BY DEF Init, HeldInv
  <2>2. TypeOK /\ HeldInv /\ [Next]_vars => HeldInv'
    BY <1>1, HeldKept
  <2> QED
    BY <2>1, <2>2, TypeCorrect, PTL DEF Spec
<1>2. ASSUME OverlapTTL >= TokenTTL, TypeOK, HeldInv PROVE SurvivesRotation
  <2> SUFFICES ASSUME NEW t \in tokens, t.current, t.hops <= 1, ~t.dropped
               PROVE  Accepts(t.key)
    BY DEF SurvivesRotation
  <2>1. t \in Token /\ Held(t) /\ (t.hops = 0 \/ t.hops = 1)
    BY <1>2 DEF TypeOK, HeldInv, Token
  <2> QED
    BY <1>2, <2>1, KeyAssumption, TTLAssumption
       DEF Held, Accepts, Secondary, OverlapOver, TypeOK, Token
<1>3. CASE OverlapTTL >= TokenTTL
  <2>1. TypeOK /\ HeldInv => SurvivesRotation
    BY <1>2, <1>3
  <2>2. Spec => []HeldInv
    BY <1>1, <1>3
  <2> QED
    BY <2>1, <2>2, TypeCorrect, PTL
<1>4. CASE ~(OverlapTTL >= TokenTTL)
  <2>1. SurvivesRotation
    BY <1>4 DEF SurvivesRotation
  <2> QED
    BY <2>1, PTL
<1> QED
  BY <1>3, <1>4
=============================================================================
