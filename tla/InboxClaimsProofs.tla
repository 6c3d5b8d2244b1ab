-------------------------- MODULE InboxClaimsProofs --------------------------
(* Proofs about InboxClaims, for every inbox, jti pool and TTL. *)
EXTENDS InboxClaims, TLAPS

USE NoneAssumption, TTLAssumption, BoundAssumption

-----------------------------------------------------------------------------
(* What the record-building operators return. *)

\* mark_fetched keeps the claim's path, bundle and age and adds the name; the
\* history field notes the bundle the handle belonged to.
LEMMA MarkedFacts ==
    ASSUME TypeOK, NEW s \in Streams, stream[s] # NoStream, HasSidecar(stream[s].jti)
    PROVE  LET j == stream[s].jti
               c == claim[j]
           IN /\ stream[s] \in Stream /\ j \in Jtis /\ c \in Claim
              /\ Marked(s) \in Claim
              /\ Marked(s).path = c.path /\ Marked(s).bid = c.bid /\ Marked(s).age = c.age
              /\ Marked(s).fetched = c.fetched \cup {stream[s].name}
              /\ Marked(s).own = c.own \cup {<<stream[s].src, stream[s].name>>}
<1>1. stream[s] \in Stream
  BY DEF TypeOK
<1>2. stream[s].jti \in Jtis /\ stream[s].name \in Names /\ stream[s].src \in Nat \ {0}
  BY <1>1 DEF Stream
<1>3. claim[stream[s].jti] \in Claim
  BY <1>2 DEF TypeOK, HasSidecar
<1> DEFINE c == claim[stream[s].jti]
<1>4. /\ Marked(s) = [path |-> c.path, bid |-> c.bid, age |-> c.age,
                      fetched |-> c.fetched \cup {stream[s].name},
                      own |-> c.own \cup {<<stream[s].src, stream[s].name>>}]
      /\ c.fetched \in SUBSET Names /\ c.own \in SUBSET ((Nat \ {0}) \X Names)
  <2> DEFINE Pairs == SUBSET ((Nat \ {0}) \X Names)
             pair == <<stream[s].src, stream[s].name>>
  <2>1. c \in [path: Paths, bid: Nat \ {0}, age: 0..ClaimTTL, fetched: SUBSET Names, own: Pairs]
    BY <1>3 DEF Claim
  <2>2. Marked(s) = [c EXCEPT !.fetched = @ \cup {stream[s].name}, !.own = @ \cup {pair}]
    BY DEF Marked
  <2> HIDE DEF Pairs, pair, c
  <2>3. /\ Marked(s) = [path |-> c.path, bid |-> c.bid, age |-> c.age,
                        fetched |-> c.fetched \cup {stream[s].name}, own |-> c.own \cup {pair}]
        /\ c.fetched \in SUBSET Names /\ c.own \in Pairs
    BY <2>1, <2>2
  <2> QED
    BY <2>3 DEF Pairs, pair
<1>5. Marked(s) \in Claim
  <2>1. {<<stream[s].src, stream[s].name>>} \in SUBSET ((Nat \ {0}) \X Names)
    BY <1>2
  <2>2. /\ c.own \cup {<<stream[s].src, stream[s].name>>} \in SUBSET ((Nat \ {0}) \X Names)
        /\ c.fetched \cup {stream[s].name} \in SUBSET Names
    BY <1>2, <1>4, <2>1
  <2> QED
    BY <1>3, <1>4, <2>2 DEF Claim
<1> QED
  BY <1>1, <1>2, <1>3, <1>4, <1>5

\* A loss is a pair of bundle ids; it names one id twice only if the claimed
\* bundle itself went with a file unfetched.
LEMMA LossFacts ==
    ASSUME TypeOK, NEW c \in Claim, NEW p \in Paths
    PROVE  /\ Loss(c, p) \subseteq Nat \X Nat
           /\ (bundle[p].id = c.bid => bundle[p].files \subseteq OwnOf(c, c.bid))
                 => \A l \in Loss(c, p) : l[1] # l[2]
  BY DEF Loss, TypeOK, Claim, Bundle, NoBundle, Present

\* What is added to the names streamed from one bundle: at most the name marked.
LEMMA MarkedOwnOf ==
    ASSUME TypeOK, NEW s \in Streams, stream[s] # NoStream, HasSidecar(stream[s].jti), NEW id
    PROVE  LET c == claim[stream[s].jti]
           IN /\ OwnOf(Marked(s), id) \in SUBSET Names
              /\ OwnOf(c, id) \subseteq OwnOf(Marked(s), id)
              /\ OwnOf(Marked(s), id) \subseteq OwnOf(c, id) \cup {stream[s].name}
              /\ stream[s].src = id => stream[s].name \in OwnOf(Marked(s), id)
<1>1. stream[s].name \in Names
  BY MarkedFacts DEF Stream
<1>2. Marked(s).own = claim[stream[s].jti].own \cup {<<stream[s].src, stream[s].name>>}
  BY MarkedFacts
<1> QED
  BY <1>1, <1>2 DEF OwnOf

\* A claim that has a sidecar is a record of the sidecar's type.
LEMMA SidecarType ==
    ASSUME TypeOK, NEW j \in Jtis, HasSidecar(j)
    PROVE  claim[j] \in Claim /\ claim[j].path \in Paths
  BY DEF TypeOK, HasSidecar, Claim

-----------------------------------------------------------------------------
(* The steps of the system, one disjunct per effect on the state. *)

NextStep ==
    \/ \E p \in Paths, fs \in (SUBSET Names) \ {{}}, r \in BOOLEAN : Put(p, fs, r)
    \/ \E p \in Paths : RemoveBundle(p)
    \/ \E p \in Paths, j \in Jtis : GetReference(p, j) \/ PickReference(p, j)
    \/ \E s \in Streams, j \in Jtis, n \in Names : OpenDownload(s, j, n)
    \/ \E s \in Streams : \/ AbortDownload(s) \/ FinishUnclaimed(s)
                          \/ FinishPartial(s) \/ FinishComplete(s) \/ FinishFails(s)
    \/ Sweep \/ TTLCleanup \/ Tick

\* Every action of Next is one of those steps.
LEMMA NextCases == Next => NextStep
<1> SUFFICES ASSUME Next PROVE NextStep
  OBVIOUS
<1>1. ASSUME NEW p \in Paths, Pick(p) PROVE NextStep
  BY <1>1 DEF Pick, PickInline, NextStep
<1>2. CASE PickLatest
  BY <1>1, <1>2 DEF PickLatest
<1>3. CASE \E p \in Paths, fs \in (SUBSET Names) \ {{}}, r \in BOOLEAN :
              Deliver(p, fs, r) \/ Broadcast(p, fs, r)
  BY <1>3 DEF Deliver, Broadcast, NextStep
<1>4. CASE \E p \in Paths : ReadExpired(p) \/ Pick(p) \/ Delete(p)
  BY <1>1, <1>4 DEF ReadExpired, Delete, NextStep
<1>5. CASE \E s \in Streams : AbortDownload(s) \/ FinishDownload(s)
  BY <1>5 DEF FinishDownload, NextStep
<1> QED
  BY <1>2, <1>3, <1>4, <1>5 DEF Next, NextStep

\* A crash adds the steps that stop half-way.
LEMMA CrashNextCases ==
    CrashNext => \/ NextStep
                 \/ CrashIdle
                 \/ \E p \in Paths, j \in Jtis : CrashInIssue(p, j)
                 \/ \E s \in Streams : CrashInAccounting(s)
                 \/ CrashInSweep
  BY NextCases DEF CrashNext, Crash

\* A sweep that a crash cuts short is a SweepEffect of nested sets of claims.
LEMMA CrashInSweepFacts ==
    ASSUME CrashInSweep
    PROVE  /\ DropStreams
           /\ \E B \in SUBSET Overdue : \E L \in SUBSET B : \E S \in SUBSET L : \E F : SweepEffect(B, L, S, F)
<1>1. PICK D \in SUBSET Overdue : \E j \in Overdue \ D :
         /\ \E L \in {D, D \cup {j}}, F \in SUBSET (D \cup {j}) : SweepEffect(D \cup {j}, L, D, F)
         /\ DropStreams
  BY DEF CrashInSweep
<1>2. PICK j \in Overdue \ D :
         /\ \E L \in {D, D \cup {j}}, F \in SUBSET (D \cup {j}) : SweepEffect(D \cup {j}, L, D, F)
         /\ DropStreams
  BY <1>1
<1>3. PICK L \in {D, D \cup {j}}, F \in SUBSET (D \cup {j}) : SweepEffect(D \cup {j}, L, D, F)
  BY <1>2
<1>4. D \cup {j} \in SUBSET Overdue /\ L \in SUBSET (D \cup {j}) /\ D \in SUBSET L
  BY <1>3
<1> QED
  BY <1>2, <1>3, <1>4

\* A sweep removes the bundle of a complete claim in B or leaves what the
\* mapping and the loss invariant see of it.
LEMMA SweptBundle ==
    ASSUME TypeOK, NEW B, NEW L, NEW S, NEW F, SweepEffect(B, L, S, F), NEW p \in Paths
    PROVE  \/ bundle'[p] = NoBundle /\ \E j \in B : claim[j].path = p /\ SweepCompletes(j)
           \/ /\ bundle'[p] \in Bundle \cup {NoBundle}
              /\ bundle'[p].id = bundle[p].id /\ bundle'[p].files = bundle[p].files
<1> DEFINE K == {j \in F \cap S : SweepCompletes(j)}
<1>1. CASE bundle'[p] = bundle[p]
  BY <1>1 DEF TypeOK
<1>2. CASE (\E j \in K : claim[j].path = p) /\ bundle'[p] = [bundle[p] EXCEPT !.kept = TRUE]
  <2>1. bundle[p] \in Bundle
    BY <1>2 DEF SweepCompletes, Present, TypeOK
  <2> QED
    BY <1>2, <2>1 DEF Bundle
<1>3. \/ bundle'[p] = NoBundle /\ \E j \in B : claim[j].path = p /\ SweepCompletes(j)
      \/ (\E j \in K : claim[j].path = p) /\ bundle'[p] = [bundle[p] EXCEPT !.kept = TRUE]
      \/ bundle'[p] = bundle[p]
  BY DEF SweepEffect
<1> QED
  BY <1>1, <1>2, <1>3

\* Ages stay within their cap.
LEMMA OlderRange == ASSUME NEW cap \in Nat, NEW age \in 0..cap
                    PROVE  Older(age, cap) \in 0..cap /\ Older(age, cap) >= age
  BY DEF Older

-----------------------------------------------------------------------------
\* The shape of the state survives every handler, loop pass and crash.
THEOREM TypeCorrect == CrashSpec => []TypeOK
<1> USE DEF TypeOK, Bundle, NoBundle, Claim, NoClaim, Token, NoToken, Stream, NoStream
<1>1. Init => TypeOK
  BY DEF Init
<1>2. TypeOK /\ [CrashNext]_vars => TypeOK'
  <2> SUFFICES ASSUME TypeOK, [CrashNext]_vars PROVE TypeOK'
    OBVIOUS
  <2>1. ASSUME NEW p \in Paths, NEW fs \in (SUBSET Names) \ {{}}, NEW r \in BOOLEAN, Put(p, fs, r)
        PROVE TypeOK'
    BY <2>1 DEF Put, NewBundle, AgeCap
  <2>2. ASSUME NEW p \in Paths, RemoveBundle(p) PROVE TypeOK'
    BY <2>2 DEF RemoveBundle
  <2>3. ASSUME NEW p \in Paths, NEW j \in Jtis, GetReference(p, j) PROVE TypeOK'
    BY <2>3 DEF GetReference, NewToken, TokenLives, Present
  <2>4. ASSUME NEW p \in Paths, NEW j \in Jtis, PickReference(p, j) PROVE TypeOK'
    BY <2>4 DEF PickReference, NewToken, NewClaim, TokenLives, Present
  <2>5. ASSUME NEW s \in Streams, NEW j \in Jtis, NEW n \in Names, OpenDownload(s, j, n)
        PROVE TypeOK'
    BY <2>5 DEF OpenDownload, Present
  <2>6. ASSUME NEW s \in Streams, AbortDownload(s) PROVE TypeOK'
    BY <2>6 DEF AbortDownload
  <2>7. ASSUME NEW s \in Streams, FinishUnclaimed(s) PROVE TypeOK'
    BY <2>7 DEF FinishUnclaimed
  <2>8. ASSUME NEW s \in Streams, FinishPartial(s) PROVE TypeOK'
    <3>1. stream[s].jti \in Jtis /\ Marked(s) \in Claim
      BY <2>8, MarkedFacts DEF FinishPartial
    <3> QED
      BY <2>8, <3>1 DEF FinishPartial
  <2>9. ASSUME NEW s \in Streams, FinishComplete(s) PROVE TypeOK'
    <3>1. stream[s].path \in Paths /\ claim[stream[s].jti].path \in Paths /\ Marked(s) \in Claim
      BY <2>9, MarkedFacts DEF FinishComplete, Stream, Claim
    <3>2. lost' \in SUBSET (Nat \X Nat)
      BY <2>9, <3>1, LossFacts DEF FinishComplete
    <3> QED
      BY <2>9, <3>1, <3>2 DEF FinishComplete
  <2>10. ASSUME NEW B \in SUBSET Overdue, NEW L \in SUBSET B, NEW S \in SUBSET L, NEW F,
                SweepEffect(B, L, S, F)
         PROVE /\ bundle' \in [Paths -> Bundle \cup {NoBundle}]
               /\ lock' \in [Paths -> Jtis \cup {None}]
               /\ claim' \in [Jtis -> Claim \cup {NoClaim}]
               /\ token' \in [Jtis -> Token \cup {NoToken}]
               /\ count' \in Nat
               /\ lost' \in SUBSET (Nat \X Nat)
    <3>1. \A j \in B : j \in Jtis /\ HasSidecar(j)
      BY DEF Overdue
    <3>2. \A j \in B : Loss(claim[j], claim[j].path) \subseteq Nat \X Nat
      BY <3>1, SidecarType, LossFacts
    <3>3. lost' \in SUBSET (Nat \X Nat)
      BY <2>10, <3>2 DEF SweepEffect
    <3>4. bundle' \in [Paths -> Bundle \cup {NoBundle}]
      <4>1. \A p \in Paths : bundle'[p] \in Bundle \cup {NoBundle}
        BY <2>10, SweptBundle
      <4> QED
        BY <2>10, <4>1 DEF SweepEffect
    <3> QED
      BY <2>10, <3>3, <3>4 DEF SweepEffect
  <2>11. CASE Sweep
    BY <2>10, <2>11 DEF Sweep
  <2>12. CASE TTLCleanup
    BY <2>12 DEF TTLCleanup
  <2>13. CASE Tick
    <3>1. ASSUME NEW p \in Paths PROVE bundle'[p] \in Bundle \cup {NoBundle}
      <4>1. CASE Present(p)
        <5>1. bundle[p] \in Bundle /\ Older(bundle[p].age, AgeCap) \in 0..AgeCap
          BY <4>1, OlderRange DEF Present, AgeCap
        <5> QED
          BY <2>13, <4>1, <5>1 DEF Tick
      <4>2. CASE ~Present(p)
        BY <2>13, <4>2 DEF Tick
      <4> QED
        BY <4>1, <4>2
    <3>2. ASSUME NEW j \in Jtis PROVE claim'[j] \in Claim \cup {NoClaim}
      BY <2>13, OlderRange DEF Tick, HasSidecar
    <3>3. ASSUME NEW j \in Jtis PROVE token'[j] \in Token \cup {NoToken}
      <4>1. CASE token[j].life > 1
        <5>1. token[j] \in Token /\ token[j].life - 1 \in 0..ClaimTTL
          BY <4>1
        <5> QED
          BY <2>13, <4>1, <5>1 DEF Tick
      <4>2. CASE ~(token[j].life > 1)
        BY <2>13, <4>2 DEF Tick
      <4> QED
        BY <4>1, <4>2
    <3> QED
      BY <2>13, <3>1, <3>2, <3>3 DEF Tick
  <2>14. CASE CrashIdle
    BY <2>14 DEF CrashIdle, DropStreams
  <2>15. ASSUME NEW p \in Paths, NEW j \in Jtis, CrashInIssue(p, j) PROVE TypeOK'
    BY <2>15 DEF CrashInIssue, DropStreams
  <2>16. ASSUME NEW s \in Streams, CrashInAccounting(s) PROVE TypeOK'
    <3>1. stream[s].path \in Paths /\ claim[stream[s].jti].path \in Paths /\ Marked(s) \in Claim
      BY <2>16, MarkedFacts DEF CrashInAccounting, Stream, Claim
    <3>2. lost' \in SUBSET (Nat \X Nat)
      BY <2>16, <3>1, LossFacts DEF CrashInAccounting
    <3> QED
      BY <2>16, <3>1, <3>2 DEF CrashInAccounting, DropStreams
  <2>17. CASE CrashInSweep
    BY <2>10, <2>17, CrashInSweepFacts DEF DropStreams
  <2>18. CASE UNCHANGED vars
    BY <2>18 DEF vars
  <2>19. ASSUME NEW s \in Streams, FinishFails(s) PROVE TypeOK'
    <3>1. stream[s].jti \in Jtis /\ stream[s].path \in Paths /\ Marked(s) \in Claim
      BY <2>19, MarkedFacts DEF FinishFails, Stream
    <3>2. lost' \in SUBSET (Nat \X Nat)
      BY <2>19, <3>1, LossFacts DEF FinishFails
    <3> QED
      BY <2>19, <3>1, <3>2 DEF FinishFails
  <2> HIDE DEF TypeOK, Bundle, NoBundle, Claim, NoClaim, Token, NoToken, Stream, NoStream
  <2> QED
    BY <2>1, <2>2, <2>3, <2>4, <2>5, <2>6, <2>7, <2>8, <2>9, <2>11, <2>12, <2>13, <2>14,
       <2>15, <2>16, <2>17, <2>18, <2>19, CrashNextCases DEF NextStep
<1>3. QED
  BY <1>1, <1>2, PTL DEF CrashSpec

-----------------------------------------------------------------------------
(* Exclusive claims.  ClaimsExclusive is inductive as it stands: the lock   *)
(* file is created and removed together with the sidecar it guards, and a   *)
(* new claim needs the lock to be free.                                     *)

\* Without crashes the types hold too.
COROLLARY SpecTypeCorrect == Spec => []TypeOK
<1>1. Spec => CrashSpec
  <2>1. [Next]_vars => [CrashNext]_vars
    BY DEF CrashNext
  <2> QED
    BY <2>1, PTL DEF Spec, CrashSpec
<1> QED
  BY <1>1, TypeCorrect, PTL

\* Only one pick wins, and no lock outlives its claim, as long as the process
\* does not die inside issue() or delete().
THEOREM Exclusive == Spec => []ClaimsExclusive
<1>1. Init => ClaimsExclusive
  BY DEF Init, ClaimsExclusive, HasSidecar
<1>2. TypeOK /\ ClaimsExclusive /\ [Next]_vars => ClaimsExclusive'
  <2> SUFFICES ASSUME TypeOK, ClaimsExclusive, [Next]_vars PROVE ClaimsExclusive'
    OBVIOUS
  <2>1. ASSUME UNCHANGED <<lock, claim>> PROVE ClaimsExclusive'
    BY <2>1 DEF ClaimsExclusive, HasSidecar
  <2>2. ASSUME NEW p \in Paths, NEW j \in Jtis, PickReference(p, j) PROVE ClaimsExclusive'
    <3>1. /\ lock' = [lock EXCEPT ![p] = j] /\ lock[p] = None
          /\ claim' = [claim EXCEPT ![j] = NewClaim(p)] /\ claim[j] = NoClaim
          /\ NewClaim(p).path = p
      BY <2>2 DEF PickReference, Fresh, NewClaim
    <3>2. \A i \in Jtis : HasSidecar(i) => i # j /\ claim[i].path # p
      BY <3>1 DEF ClaimsExclusive, HasSidecar
    <3>3. \A q \in Paths : lock[q] # j
      BY <2>2 DEF PickReference, Fresh
    <3> QED
      BY <3>1, <3>2, <3>3 DEF ClaimsExclusive, HasSidecar, TypeOK
  <2>3. ASSUME NEW s \in Streams, FinishPartial(s) \/ FinishFails(s) PROVE ClaimsExclusive'
    <3>1. /\ Marked(s).path = claim[stream[s].jti].path /\ stream[s].jti \in Jtis
          /\ HasSidecar(stream[s].jti) /\ lock' = lock
          /\ claim' = [claim EXCEPT ![stream[s].jti] = Marked(s)]
      BY <2>3, MarkedFacts DEF FinishPartial, FinishFails
    <3> QED
      BY <3>1 DEF ClaimsExclusive, HasSidecar, TypeOK
  <2>4. ASSUME NEW s \in Streams, FinishComplete(s) PROVE ClaimsExclusive'
    <3>1. stream[s].jti \in Jtis /\ claim[stream[s].jti].path \in Paths
      BY <2>4, MarkedFacts DEF FinishComplete, Claim
    <3> DEFINE j == stream[s].jti
               p == claim[j].path
    <3>2. /\ lock' = [lock EXCEPT ![p] = None]
          /\ claim' = [claim EXCEPT ![j] = NoClaim]
          /\ HasSidecar(j)
      BY <2>4 DEF FinishComplete
    <3>3. \A i \in Jtis \ {j} : HasSidecar(i) => claim[i].path # p
      BY <3>2, <3>1 DEF ClaimsExclusive
    <3>4. \A q \in Paths \ {p} : lock[q] # j
      BY <3>1 DEF ClaimsExclusive
    <3> QED
      BY <3>1, <3>2, <3>3, <3>4 DEF ClaimsExclusive, HasSidecar, TypeOK
  <2>5. CASE Sweep
    <3>1. /\ lock' = [p \in Paths |-> IF \E j \in Overdue : claim[j].path = p THEN None ELSE lock[p]]
          /\ claim' = [j \in Jtis |-> IF j \in Overdue THEN NoClaim ELSE claim[j]]
      BY <2>5 DEF Sweep, SweepEffect
    <3> QED
      BY <3>1, SidecarType DEF Overdue, ClaimsExclusive, HasSidecar, TypeOK, NoClaim
  <2>6. CASE Tick
    <3>1. /\ lock' = lock
          /\ \A j \in Jtis : (claim'[j] # NoClaim => claim[j] # NoClaim) /\ claim'[j].path = claim[j].path
      BY <2>6, SidecarType DEF Tick, HasSidecar, TypeOK, Claim, NoClaim
    <3> QED
      BY <3>1 DEF ClaimsExclusive, HasSidecar, TypeOK
  <2> QED
    BY <2>1, <2>2, <2>3, <2>4, <2>5, <2>6, NextCases
    DEF NextStep, Put, RemoveBundle, GetReference, OpenDownload, AbortDownload, FinishUnclaimed,
        TTLCleanup, vars
<1>3. QED
  BY <1>1, <1>2, SpecTypeCorrect, PTL DEF Spec

\* What list_inbox hides from its readers is locked by the claim that hides it.
THEOREM HiddenBundlesHeld == Spec => []HiddenIsHeld
<1>1. ClaimsExclusive => HiddenIsHeld
  <2> SUFFICES ASSUME ClaimsExclusive,
                      NEW p \in Paths, Present(p), ~Expired(bundle[p]), ~Listed(p)
               PROVE  lock[p] # None
    BY DEF HiddenIsHeld
  <2>1. PICK j \in ClaimsOn(p) : Active(j)
    BY DEF Listed, Claimed
  <2>2. j \in Jtis /\ HasSidecar(j) /\ claim[j].path = p
    BY <2>1 DEF ClaimsOn, Active
  <2> QED
    BY <2>2, NoneAssumption DEF ClaimsExclusive
<1> QED
  BY <1>1, Exclusive, PTL

-----------------------------------------------------------------------------
(* Tokens and claims run out together.  Here a token without a claim (a get *)
(* token, or one whose claim is settled) is unconstrained, and a new claim  *)
(* gets a new token, so the invariant is inductive as it stands.            *)

\* No download starts under a claim that the reaper may have released.
THEOREM TokensWithinClaims == CrashSpec => []TokenWithinClaim
<1>1. Init => TokenWithinClaim
  BY DEF Init, TokenWithinClaim, HasSidecar
<1>2. TypeOK /\ TokenWithinClaim /\ [CrashNext]_vars => TokenWithinClaim'
  <2> SUFFICES ASSUME TypeOK, TokenWithinClaim, [CrashNext]_vars PROVE TokenWithinClaim'
    OBVIOUS
  <2>1. ASSUME token' = token,
               \A j \in Jtis : claim'[j] # NoClaim => claim[j] # NoClaim /\ claim'[j].age = claim[j].age
        PROVE TokenWithinClaim'
    BY <2>1 DEF TokenWithinClaim, HasSidecar
  <2>2. ASSUME NEW p \in Paths, NEW j \in Jtis, GetReference(p, j) PROVE TokenWithinClaim'
    BY <2>2 DEF GetReference, Fresh, TokenWithinClaim, HasSidecar, TypeOK
  <2>3. ASSUME NEW p \in Paths, NEW j \in Jtis, PickReference(p, j) PROVE TokenWithinClaim'
    <3>1. PICK life \in TokenLives : token' = [token EXCEPT ![j] = NewToken(p, life)]
      BY <2>3 DEF PickReference
    <3>2. claim'[j].age = 0 /\ token'[j].life = life /\ life \in Nat /\ life <= ClaimTTL
      BY <2>3, <3>1 DEF PickReference, NewClaim, NewToken, TokenLives, TypeOK
    <3>3. \A i \in Jtis \ {j} : claim'[i] = claim[i] /\ token'[i] = token[i]
      BY <2>3, <3>1 DEF PickReference, TypeOK
    <3> QED
      BY <3>2, <3>3 DEF TokenWithinClaim, HasSidecar
  <2>4. ASSUME NEW s \in Streams, stream[s] # NoStream, HasSidecar(stream[s].jti), token' = token,
               claim' = [claim EXCEPT ![stream[s].jti] = Marked(s)]
        PROVE TokenWithinClaim'
    <3>1. Marked(s).age = claim[stream[s].jti].age /\ stream[s].jti \in Jtis
      BY <2>4, MarkedFacts
    <3> QED
      BY <2>1, <2>4, <3>1 DEF HasSidecar, TypeOK
  <2>5. ASSUME NEW s \in Streams, FinishComplete(s) PROVE TokenWithinClaim'
    BY <2>1, <2>5 DEF FinishComplete, TypeOK
  <2>6. ASSUME NEW B, NEW L, NEW S, NEW F, SweepEffect(B, L, S, F) PROVE TokenWithinClaim'
    BY <2>1, <2>6 DEF SweepEffect
  <2>7. CASE Tick
    <3> SUFFICES ASSUME NEW j \in Jtis, claim'[j] # NoClaim, token'[j] # NoToken
                 PROVE  token'[j].life + claim'[j].age <= ClaimTTL
      BY DEF TokenWithinClaim, HasSidecar
    <3>1. claim[j] # NoClaim /\ claim'[j] = [claim[j] EXCEPT !.age = Older(@, ClaimTTL)]
      BY <2>7 DEF Tick, HasSidecar
    <3>2. token[j].life > 1 /\ token'[j] = [token[j] EXCEPT !.life = @ - 1]
      BY <2>7 DEF Tick
    <3>3. token[j] \in Token /\ claim[j] \in Claim
      BY <3>1, <3>2 DEF TypeOK, NoToken
    <3>4. token[j].life + claim[j].age <= ClaimTTL
      BY <3>1, <3>2 DEF TokenWithinClaim, HasSidecar, NoToken
    <3>5. claim'[j].age <= claim[j].age + 1 /\ token'[j].life = token[j].life - 1
      BY <3>1, <3>2, <3>3 DEF Older, Claim, Token
    <3>6. claim'[j].age \in Nat /\ token[j].life \in Nat /\ claim[j].age \in Nat
      BY <3>1, <3>3, OlderRange DEF Claim, Token
    <3> QED
      BY <3>4, <3>5, <3>6
  <2>8. CASE CrashInSweep
    BY <2>6, <2>8, CrashInSweepFacts
  <2>9. CASE Sweep
    BY <2>6, <2>9 DEF Sweep
  <2>10. ASSUME NEW s \in Streams, FinishPartial(s) \/ FinishFails(s) \/ CrashInAccounting(s)
         PROVE TokenWithinClaim'
    BY <2>4, <2>10 DEF FinishPartial, FinishFails, CrashInAccounting
  <2>11. ASSUME UNCHANGED <<token, claim>> PROVE TokenWithinClaim'
    BY <2>11 DEF TokenWithinClaim, HasSidecar
  <2> QED
    BY <2>2, <2>3, <2>5, <2>7, <2>8, <2>9, <2>10, <2>11, CrashNextCases
    DEF NextStep, Put, RemoveBundle, OpenDownload, AbortDownload, FinishUnclaimed, TTLCleanup,
        CrashIdle, CrashInIssue, vars
<1>3. QED
  BY <1>1, <1>2, TypeCorrect, PTL DEF CrashSpec

-----------------------------------------------------------------------------
(* No claimed bundle is lost.  The property speaks of what was removed; to  *)
(* carry it through a step one has to know where the names in a claim's     *)
(* files_fetched came from.  As long as the claimed bundle is still at its  *)
(* path, every download under the claim reads that bundle and captured its  *)
(* manifest (StreamsRead), because ids are never reused (IdsKnown) and      *)
(* token, stream and claim agree on the path (TokensMatch, StreamsMatch);   *)
(* so every recorded name was streamed from it (FetchedOwn).                *)

IdsKnown == /\ \A p \in Paths : bundle[p].id <= count
            /\ \A j \in Jtis : claim[j].bid <= count

TokensMatch == \A j \in Jtis : HasSidecar(j) /\ token[j] # NoToken
                                 => token[j].path = claim[j].path

StreamsMatch == \A s \in Streams : stream[s] # NoStream /\ HasSidecar(stream[s].jti)
                                     => stream[s].path = claim[stream[s].jti].path

Untouched(j) == HasSidecar(j) /\ bundle[claim[j].path].id = claim[j].bid

StreamsRead == \A s \in Streams :
    stream[s] # NoStream /\ Untouched(stream[s].jti)
      => /\ stream[s].src = claim[stream[s].jti].bid
         /\ stream[s].manifest = bundle[stream[s].path].files

FetchedOwn == \A j \in Jtis :
    Untouched(j) => claim[j].fetched \subseteq OwnOf(claim[j], claim[j].bid)

LossInv == /\ IdsKnown /\ TokensMatch /\ StreamsMatch /\ StreamsRead /\ FetchedOwn
           /\ ClaimedBundleNotLost

\* A step that takes claims, tokens and streams away or leaves them, gives new
\* bundles new ids, and adds to files_fetched only what was streamed from the
\* claimed bundle, keeps LossInv.
LEMMA LossInvKept ==
    ASSUME TypeOK, LossInv, ClaimedBundleNotLost',
           count' \in Nat, count <= count',
           \A p \in Paths : /\ bundle'[p].id \in Nat /\ bundle'[p].id <= count'
                            /\ \/ /\ bundle'[p].id = bundle[p].id
                                  /\ bundle'[p].files = bundle[p].files
                               \/ bundle'[p].id = 0
                               \/ bundle'[p].id > count,
           \A j \in Jtis : \/ claim'[j] = NoClaim
                           \/ /\ claim[j] # NoClaim
                              /\ claim'[j].path = claim[j].path
                              /\ claim'[j].bid = claim[j].bid
                              /\ Untouched(j) => claim'[j].fetched \subseteq OwnOf(claim'[j], claim'[j].bid),
           \A j \in Jtis : token'[j] = NoToken \/ (token[j] # NoToken /\ token'[j].path = token[j].path),
           \A s \in Streams : stream'[s] = NoStream \/ stream'[s] = stream[s]
    PROVE  LossInv'
<1>1. ASSUME NEW j \in Jtis, claim'[j] # NoClaim
      PROVE  /\ claim[j] # NoClaim /\ claim[j] \in Claim /\ claim[j].path \in Paths
             /\ claim[j].bid \in Nat \ {0} /\ claim[j].bid <= count
             /\ claim'[j].path = claim[j].path /\ claim'[j].bid = claim[j].bid
  BY <1>1, SidecarType DEF HasSidecar, Claim, LossInv, IdsKnown
<1>2. ASSUME NEW j \in Jtis, Untouched(j)'
      PROVE  Untouched(j) /\ bundle'[claim[j].path].files = bundle[claim[j].path].files
  <2>1. claim'[j] # NoClaim /\ bundle'[claim'[j].path].id = claim'[j].bid
    BY <1>2 DEF Untouched, HasSidecar
  <2>2. bundle'[claim[j].path].id = claim[j].bid
    BY <1>1, <2>1
  <2>3. count \in Nat
    BY DEF TypeOK
  <2>4. bundle'[claim[j].path].id # 0 /\ ~(bundle'[claim[j].path].id > count)
    BY <1>1, <2>1, <2>2, <2>3
  <2> QED
    BY <1>1, <2>1, <2>2, <2>4 DEF Untouched, HasSidecar
<1>3. \A s \in Streams : stream'[s] # NoStream => stream'[s] = stream[s] /\ stream[s] \in Stream
  BY DEF TypeOK
<1>4. IdsKnown'
  <2>1. \A j \in Jtis : claim'[j].bid <= count'
    <3> SUFFICES ASSUME NEW j \in Jtis PROVE claim'[j].bid <= count'
      OBVIOUS
    <3>1. CASE claim'[j] = NoClaim
      BY <3>1 DEF NoClaim
    <3>2. CASE claim'[j] # NoClaim
      BY <3>2, <1>1 DEF TypeOK
    <3> QED
      BY <3>1, <3>2
  <2> QED
    BY <2>1 DEF IdsKnown
<1>5. TokensMatch'
  BY <1>1 DEF TokensMatch, LossInv, HasSidecar
<1>6. StreamsMatch'
  BY <1>1, <1>3 DEF StreamsMatch, LossInv, HasSidecar, Stream
<1>7. StreamsRead'
  <2> SUFFICES ASSUME NEW s \in Streams, (stream[s] # NoStream /\ Untouched(stream[s].jti))'
               PROVE  (/\ stream[s].src = claim[stream[s].jti].bid
                       /\ stream[s].manifest = bundle[stream[s].path].files)'
    BY DEF StreamsRead
  <2>1. stream'[s] = stream[s] /\ stream[s].jti \in Jtis /\ stream[s] # NoStream
    BY <1>3 DEF Stream
  <2>2. PICK j \in Jtis : j = stream[s].jti /\ j = stream'[s].jti
    BY <2>1
  <2>3. Untouched(j)'
    BY <2>2 DEF Untouched, HasSidecar
  <2>4. Untouched(j) /\ bundle'[claim[j].path].files = bundle[claim[j].path].files
    BY <1>2, <2>3
  <2>5. claim'[j].bid = claim[j].bid
    BY <1>1, <2>3 DEF Untouched, HasSidecar
  <2>6. stream[s].path = claim[j].path
    BY <2>1, <2>2, <2>4 DEF Untouched, LossInv, StreamsMatch
  <2> QED
    BY <2>1, <2>2, <2>4, <2>5, <2>6 DEF LossInv, StreamsRead
<1>8. FetchedOwn'
  <2> SUFFICES ASSUME NEW j \in Jtis, Untouched(j)'
               PROVE  claim'[j].fetched \subseteq OwnOf(claim'[j], claim'[j].bid)
    BY DEF FetchedOwn
  <2>1. claim'[j] # NoClaim
    BY DEF Untouched, HasSidecar
  <2> QED
    BY <1>2, <2>1
<1> QED
  BY <1>4, <1>5, <1>6, <1>7, <1>8 DEF LossInv

\* What is recorded at the end of a download under an untouched claim was
\* streamed from the claimed bundle; if it completes the claim, nothing of the
\* claimed bundle is missing.
LEMMA MarkedOwn ==
    ASSUME TypeOK, LossInv, NEW s \in Streams, stream[s] # NoStream, HasSidecar(stream[s].jti)
    PROVE  /\ Untouched(stream[s].jti) => Marked(s).fetched \subseteq OwnOf(Marked(s), Marked(s).bid)
           /\ Completes(s) => \A l \in Loss(Marked(s), stream[s].path) : l[1] # l[2]
<1> DEFINE j == stream[s].jti
<1>1. j \in Jtis /\ claim[j] \in Claim /\ Marked(s) \in Claim /\ stream[s].path \in Paths
  BY MarkedFacts DEF Stream
<1>2. stream[s].path = claim[j].path
  BY DEF LossInv, StreamsMatch
<1>3. Untouched(j) => Marked(s).fetched \subseteq OwnOf(Marked(s), Marked(s).bid)
  <2> SUFFICES ASSUME Untouched(j) PROVE Marked(s).fetched \subseteq OwnOf(Marked(s), Marked(s).bid)
    OBVIOUS
  <2>1. stream[s].src = claim[j].bid /\ claim[j].fetched \subseteq OwnOf(claim[j], claim[j].bid)
    BY <1>1 DEF LossInv, StreamsRead, FetchedOwn
  <2> QED
    BY <2>1, MarkedFacts, MarkedOwnOf
<1>4. Completes(s) /\ bundle[stream[s].path].id = Marked(s).bid
         => bundle[stream[s].path].files \subseteq OwnOf(Marked(s), Marked(s).bid)
  <2> SUFFICES ASSUME Completes(s), bundle[stream[s].path].id = Marked(s).bid
               PROVE  bundle[stream[s].path].files \subseteq OwnOf(Marked(s), Marked(s).bid)
    OBVIOUS
  <2>1. Untouched(j)
    BY <1>2, MarkedFacts DEF Untouched
  <2>2. stream[s].manifest = bundle[stream[s].path].files
    BY <2>1 DEF LossInv, StreamsRead
  <2> QED
    BY <1>3, <2>1, <2>2 DEF Completes
<1> QED
  BY <1>1, <1>3, <1>4, LossFacts

\* A sweep, complete or cut short, loses nothing of a claimed bundle.
LEMMA SweepKeepsLossInv ==
    ASSUME TypeOK, LossInv, NEW B \in SUBSET Overdue, NEW L, NEW S, NEW F,
           SweepEffect(B, L, S, F),
           \A s \in Streams : stream'[s] = NoStream \/ stream'[s] = stream[s]
    PROVE  LossInv'
<1> DEFINE C == {j \in B \ F : SweepCompletes(j)}
<1>1. \A j \in B : j \in Jtis /\ HasSidecar(j) /\ claim[j] \in Claim /\ claim[j].path \in Paths
  BY SidecarType DEF Overdue
<1>2. ASSUME NEW j \in C PROVE \A l \in Loss(claim[j], claim[j].path) : l[1] # l[2]
  <2>1. bundle[claim[j].path].id = claim[j].bid => bundle[claim[j].path].files \subseteq OwnOf(claim[j], claim[j].bid)
    <3> SUFFICES ASSUME bundle[claim[j].path].id = claim[j].bid
                 PROVE  bundle[claim[j].path].files \subseteq OwnOf(claim[j], claim[j].bid)
      OBVIOUS
    <3>1. claim[j].fetched \subseteq OwnOf(claim[j], claim[j].bid)
      BY <1>1 DEF LossInv, FetchedOwn, Untouched
    <3> QED
      BY <3>1 DEF SweepCompletes
  <2> QED
    BY <1>1, <2>1, LossFacts
<1>3. ClaimedBundleNotLost'
  BY <1>2 DEF SweepEffect, ClaimedBundleNotLost, LossInv
<1>4. \A p \in Paths : \/ bundle'[p] = NoBundle
                       \/ bundle'[p].id = bundle[p].id /\ bundle'[p].files = bundle[p].files
  BY SweptBundle
<1>5. \A p \in Paths : /\ bundle'[p].id \in Nat /\ bundle'[p].id <= count
                       /\ \/ bundle'[p].id = bundle[p].id /\ bundle'[p].files = bundle[p].files
                          \/ bundle'[p].id = 0
  BY <1>4 DEF TypeOK, Bundle, NoBundle, LossInv, IdsKnown
<1>6. \A j \in Jtis : claim'[j] = NoClaim \/ claim'[j] = claim[j]
  BY DEF SweepEffect
<1>7. \A j \in Jtis : Untouched(j) => claim[j].fetched \subseteq OwnOf(claim[j], claim[j].bid)
  BY DEF LossInv, FetchedOwn
<1>8. count' = count /\ token' = token /\ count \in Nat
  BY DEF SweepEffect, TypeOK
<1> QED
  BY <1>3, <1>5, <1>6, <1>7, <1>8, LossInvKept

\* The strengthened invariant survives every handler, loop pass and crash.
LEMMA LossInvariant == CrashSpec => []LossInv
<1>1. Init => LossInv
  BY DEF Init, LossInv, IdsKnown, TokensMatch, StreamsMatch, StreamsRead, FetchedOwn, Untouched,
         HasSidecar, ClaimedBundleNotLost, NoBundle, NoClaim
<1>2. TypeOK /\ LossInv /\ [CrashNext]_vars => LossInv'
  <2> SUFFICES ASSUME TypeOK, LossInv, [CrashNext]_vars PROVE LossInv'
    OBVIOUS
  <2>1. count \in Nat /\ \A p \in Paths : bundle[p].id \in Nat /\ bundle[p].id <= count
    BY DEF TypeOK, Bundle, NoBundle, LossInv, IdsKnown
  <2>2. \A j \in Jtis : Untouched(j) => claim[j].fetched \subseteq OwnOf(claim[j], claim[j].bid)
    BY DEF LossInv, FetchedOwn
  <2>3. lost' = lost => ClaimedBundleNotLost'
    BY DEF LossInv, ClaimedBundleNotLost
  <2>4. ASSUME NEW p \in Paths, NEW fs \in (SUBSET Names) \ {{}}, NEW r \in BOOLEAN, Put(p, fs, r)
        PROVE LossInv'
    <3>1. \A q \in Paths : /\ bundle'[q].id \in Nat /\ bundle'[q].id <= count'
                           /\ \/ bundle'[q].id = bundle[q].id /\ bundle'[q].files = bundle[q].files
                              \/ bundle'[q].id > count
      BY <2>1, <2>4 DEF Put, NewBundle, TypeOK
    <3> QED
      BY <2>1, <2>2, <2>3, <2>4, <3>1, LossInvKept DEF Put
  <2>5. ASSUME \A p \in Paths : bundle'[p] = bundle[p] \/ bundle'[p] = NoBundle,
               UNCHANGED <<count, claim, token, lost>>,
               \A s \in Streams : stream'[s] = NoStream \/ stream'[s] = stream[s]
        PROVE LossInv'
    <3>1. \A p \in Paths : /\ bundle'[p].id \in Nat /\ bundle'[p].id <= count
                           /\ \/ bundle'[p].id = bundle[p].id /\ bundle'[p].files = bundle[p].files
                              \/ bundle'[p].id = 0
      BY <2>1, <2>5 DEF NoBundle
    <3> QED
      BY <2>1, <2>2, <2>3, <2>5, <3>1, LossInvKept
  <2>6. ASSUME NEW p \in Paths, NEW j \in Jtis, GetReference(p, j) PROVE LossInv'
    <3>1. claim[j] = NoClaim /\ \A i \in Jtis \ {j} : token'[i] = token[i]
      BY <2>6 DEF GetReference, Fresh, TypeOK
    <3>2. TokensMatch'
      BY <2>6, <3>1 DEF GetReference, TokensMatch, HasSidecar, LossInv
    <3> QED
      BY <2>6, <3>2 DEF GetReference, LossInv, IdsKnown, StreamsMatch, StreamsRead, FetchedOwn,
         Untouched, HasSidecar, ClaimedBundleNotLost
  <2>7. ASSUME NEW p \in Paths, NEW j \in Jtis, PickReference(p, j) PROVE LossInv'
    <3>1. /\ claim' = [claim EXCEPT ![j] = NewClaim(p)]
          /\ UNCHANGED <<bundle, count, stream, lost>>
          /\ \A i \in Jtis \ {j} : claim'[i] = claim[i] /\ token'[i] = token[i]
          /\ \A s \in Streams : stream[s].jti # j
      BY <2>7 DEF PickReference, Fresh, TypeOK
    <3>2. /\ claim'[j].path = p /\ claim'[j].bid = bundle[p].id
          /\ claim'[j].fetched = {} /\ token'[j].path = p
      BY <2>7 DEF PickReference, NewClaim, NewToken, TypeOK
    <3>3. IdsKnown'
      BY <2>1, <3>1, <3>2 DEF LossInv, IdsKnown
    <3>4. TokensMatch'
      BY <3>1, <3>2 DEF LossInv, TokensMatch, HasSidecar
    <3>5. \A s \in Streams : stream[s] # NoStream => stream[s].jti \in Jtis \ {j}
      BY <3>1 DEF TypeOK, Stream
    <3>6. StreamsMatch'
      BY <3>1, <3>5 DEF LossInv, StreamsMatch, HasSidecar
    <3>7. StreamsRead'
      BY <3>1, <3>5 DEF LossInv, StreamsRead, Untouched, HasSidecar
    <3>8. FetchedOwn'
      BY <3>1, <3>2 DEF LossInv, FetchedOwn, Untouched, HasSidecar
    <3> QED
      BY <2>3, <3>1, <3>3, <3>4, <3>6, <3>7, <3>8 DEF LossInv
  <2>8. ASSUME NEW s \in Streams, NEW j \in Jtis, NEW n \in Names, OpenDownload(s, j, n)
        PROVE LossInv'
    <3>1. token[j] # NoToken
      BY <2>8 DEF OpenDownload, NoToken
    <3>2. /\ stream'[s].jti = j /\ stream'[s].path = token[j].path
          /\ stream'[s].manifest = bundle[token[j].path].files
          /\ stream'[s].src = bundle[token[j].path].id
          /\ \A t \in Streams \ {s} : stream'[t] = stream[t]
          /\ UNCHANGED <<bundle, count, claim, token, lost>>
      BY <2>8 DEF OpenDownload, TypeOK
    <3>3. HasSidecar(j) => token[j].path = claim[j].path
      BY <3>1 DEF LossInv, TokensMatch
    <3>4. StreamsMatch'
      BY <3>2, <3>3 DEF LossInv, StreamsMatch, HasSidecar
    <3>5. StreamsRead'
      BY <3>2, <3>3 DEF LossInv, StreamsRead, Untouched, HasSidecar
    <3> QED
      BY <2>3, <3>2, <3>4, <3>5
      DEF LossInv, IdsKnown, TokensMatch, FetchedOwn, Untouched, HasSidecar
  <2>9. ASSUME NEW s \in Streams, stream[s] # NoStream, HasSidecar(stream[s].jti),
               \/ claim' = [claim EXCEPT ![stream[s].jti] = Marked(s)]
               \/ claim' = [claim EXCEPT ![stream[s].jti] = NoClaim],
               \/ UNCHANGED <<bundle, lost>>
               \/ /\ Completes(s)
                  /\ bundle' = [bundle EXCEPT ![stream[s].path] = NoBundle]
                  /\ lost' = lost \cup Loss(Marked(s), stream[s].path),
               UNCHANGED <<count, token>>,
               \A t \in Streams : stream'[t] = NoStream \/ stream'[t] = stream[t]
        PROVE LossInv'
    <3> DEFINE j == stream[s].jti
    <3>1. /\ j \in Jtis /\ Marked(s).path = claim[j].path /\ Marked(s).bid = claim[j].bid
          /\ Untouched(j) => Marked(s).fetched \subseteq OwnOf(Marked(s), Marked(s).bid)
      BY <2>9, MarkedFacts, MarkedOwn
    <3>2. \A i \in Jtis : \/ claim'[i] = NoClaim
                          \/ /\ claim[i] # NoClaim
                             /\ claim'[i].path = claim[i].path
                             /\ claim'[i].bid = claim[i].bid
                             /\ Untouched(i) => claim'[i].fetched \subseteq OwnOf(claim'[i], claim'[i].bid)
      BY <2>2, <2>9, <3>1 DEF TypeOK, HasSidecar
    <3>3. \A p \in Paths : /\ bundle'[p].id \in Nat /\ bundle'[p].id <= count
                           /\ \/ bundle'[p].id = bundle[p].id /\ bundle'[p].files = bundle[p].files
                              \/ bundle'[p].id = 0
      BY <2>1, <2>9 DEF NoBundle, TypeOK
    <3>4. ClaimedBundleNotLost'
      BY <2>3, <2>9, MarkedOwn DEF LossInv, ClaimedBundleNotLost
    <3> QED
      BY <2>1, <2>9, <3>2, <3>3, <3>4, LossInvKept
  <2>10. CASE Tick
    <3>1. \A p \in Paths : bundle'[p].id = bundle[p].id /\ bundle'[p].files = bundle[p].files
      BY <2>10 DEF Tick, Present, TypeOK, Bundle, NoBundle
    <3>2. \A i \in Jtis : \/ claim'[i] = NoClaim
                          \/ /\ claim[i] # NoClaim
                             /\ claim'[i].path = claim[i].path /\ claim'[i].bid = claim[i].bid
                             /\ claim'[i].fetched = claim[i].fetched /\ claim'[i].own = claim[i].own
      BY <2>10 DEF Tick, HasSidecar, TypeOK, Claim
    <3>3. \A i \in Jtis : token'[i] = NoToken \/ (token[i] # NoToken /\ token'[i].path = token[i].path)
      BY <2>10 DEF Tick, TypeOK, Token, NoToken
    <3>4. \A i \in Jtis : claim'[i] = NoClaim \/
             (Untouched(i) => claim'[i].fetched \subseteq OwnOf(claim'[i], claim'[i].bid))
      BY <2>2, <3>2 DEF OwnOf
    <3> QED
      BY <2>1, <2>3, <2>10, <3>1, <3>2, <3>3, <3>4, LossInvKept DEF Tick
  <2>11. CASE Sweep
    BY <2>11, SweepKeepsLossInv DEF Sweep
  <2>12. CASE CrashInSweep
    BY <2>12, CrashInSweepFacts, SweepKeepsLossInv DEF DropStreams
  <2>13. ASSUME NEW s \in Streams, \/ FinishPartial(s) \/ FinishComplete(s)
                                   \/ FinishFails(s) \/ CrashInAccounting(s)
         PROVE LossInv'
    <3>1. \A t \in Streams : stream'[t] = NoStream \/ stream'[t] = stream[t]
      BY <2>13 DEF FinishPartial, FinishComplete, FinishFails, CrashInAccounting, DropStreams, TypeOK
    <3> QED
      BY <2>9, <2>13, <3>1 DEF FinishPartial, FinishComplete, FinishFails, CrashInAccounting
  <2>14. ASSUME NEW s \in Streams, AbortDownload(s) \/ FinishUnclaimed(s) PROVE LossInv'
    BY <2>5, <2>14 DEF AbortDownload, FinishUnclaimed, TypeOK
  <2>15. ASSUME NEW p \in Paths, RemoveBundle(p) PROVE LossInv'
    BY <2>5, <2>15 DEF RemoveBundle, TypeOK
  <2>16. ASSUME TTLCleanup \/ CrashIdle \/ (\E p \in Paths, j \in Jtis : CrashInIssue(p, j))
                \/ UNCHANGED vars
         PROVE LossInv'
    BY <2>5, <2>16 DEF TTLCleanup, CrashIdle, CrashInIssue, DropStreams, vars
  <2> QED
    BY <2>4, <2>6, <2>7, <2>8, <2>10, <2>11, <2>12, <2>13, <2>14, <2>15, <2>16, CrashNextCases
    DEF NextStep
<1>3. QED
  BY <1>1, <1>2, TypeCorrect, PTL DEF CrashSpec

\* A completed claim has removed the bundle it was issued for only after all of
\* its files were streamed under that claim - through every interleaving of
\* downloads, replacements, sweeps and crashes.
THEOREM NoClaimedBundleLost == CrashSpec => []ClaimedBundleNotLost
<1>1. LossInv => ClaimedBundleNotLost
  BY DEF LossInv
<1> QED
  BY <1>1, LossInvariant, PTL

-----------------------------------------------------------------------------
(* The inbox implements Mailbox.  The mapping reads a hold from the lock    *)
(* file and the sidecar it names.  Each step is looked at one path at a     *)
(* time, and only NoOrphanClaim is asked of the path: this holds everywhere *)
(* without crashes (ClaimsExclusive), and with them wherever no settlement  *)
(* was cut off between its two unlinks.  That a settled hold handed over    *)
(* all of its bundle is LossInv.                                            *)

LocksOwn == \A p \in Paths : lock[p] # None /\ HasSidecar(lock[p]) => claim[lock[p]].path = p

\* Locks that go and claims that keep their path keep LocksOwn.
LEMMA LocksOwnKept ==
    ASSUME TypeOK, LocksOwn,
           \A p \in Paths : lock'[p] = lock[p] \/ lock'[p] = None,
           \A j \in Jtis : claim'[j] # NoClaim => claim[j] # NoClaim /\ claim'[j].path = claim[j].path
    PROVE  LocksOwn'
<1> SUFFICES ASSUME NEW p \in Paths, lock'[p] # None, claim'[lock'[p]] # NoClaim
             PROVE  claim'[lock'[p]].path = p
  BY DEF LocksOwn, HasSidecar
<1>1. lock'[p] = lock[p] /\ lock[p] \in Jtis
  BY DEF TypeOK
<1> QED
  BY <1>1 DEF LocksOwn, HasSidecar

\* The sidecar a lock file names is a claim on the lock's own path, crash or not.
LEMMA LocksOwnAlways == CrashSpec => []LocksOwn
<1>1. Init => LocksOwn
  BY DEF Init, LocksOwn
<1>2. TypeOK /\ LocksOwn /\ [CrashNext]_vars => LocksOwn'
  <2> SUFFICES ASSUME TypeOK, LocksOwn, [CrashNext]_vars PROVE LocksOwn'
    OBVIOUS
  <2>1. ASSUME UNCHANGED <<lock, claim>> PROVE LocksOwn'
    BY <2>1 DEF LocksOwn, HasSidecar
  <2>2. ASSUME NEW p \in Paths, NEW j \in Jtis, PickReference(p, j) PROVE LocksOwn'
    <3>1. /\ lock' = [lock EXCEPT ![p] = j] /\ claim' = [claim EXCEPT ![j] = NewClaim(p)]
          /\ \A q \in Paths : lock[q] # j
          /\ NewClaim(p).path = p
      BY <2>2 DEF PickReference, Fresh, NewClaim
    <3> QED
      BY <3>1 DEF LocksOwn, HasSidecar, TypeOK
  <2>3. ASSUME NEW p \in Paths, NEW j \in Jtis, CrashInIssue(p, j) PROVE LocksOwn'
    BY <2>3 DEF CrashInIssue, Fresh, LocksOwn, HasSidecar, TypeOK
  <2>4. ASSUME NEW s \in Streams, FinishPartial(s) \/ FinishFails(s) \/ CrashInAccounting(s)
        PROVE LocksOwn'
    <3>1. /\ stream[s].jti \in Jtis /\ Marked(s).path = claim[stream[s].jti].path
          /\ claim[stream[s].jti] # NoClaim /\ claim[stream[s].jti].path \in Paths
      BY <2>4, MarkedFacts, SidecarType DEF FinishPartial, FinishFails, CrashInAccounting, HasSidecar
    <3> QED
      BY <2>4, <3>1, LocksOwnKept DEF FinishPartial, FinishFails, CrashInAccounting, TypeOK
  <2>5. ASSUME NEW s \in Streams, FinishComplete(s) PROVE LocksOwn'
    BY <2>5, LocksOwnKept DEF FinishComplete, TypeOK
  <2>6. ASSUME NEW B, NEW L, NEW S, NEW F, SweepEffect(B, L, S, F) PROVE LocksOwn'
    BY <2>6, LocksOwnKept DEF SweepEffect
  <2>7. CASE Tick
    BY <2>7, LocksOwnKept DEF Tick, HasSidecar, TypeOK, Claim
  <2>8. CASE CrashInSweep
    BY <2>6, <2>8, CrashInSweepFacts
  <2>9. CASE Sweep
    BY <2>6, <2>9 DEF Sweep
  <2> QED
    BY <2>1, <2>2, <2>3, <2>4, <2>5, <2>7, <2>8, <2>9, CrashNextCases
    DEF NextStep, Put, RemoveBundle, GetReference, OpenDownload, AbortDownload, FinishUnclaimed,
        TTLCleanup, CrashIdle, vars
<1>3. QED
  BY <1>1, <1>2, TypeCorrect, PTL DEF CrashSpec

\* What the mapping sees of a path with a hold, and of one without.
LEMMA HoldFacts ==
    ASSUME TypeOK, NEW p \in Paths
    PROVE  /\ lock[p] = None \/ ~HasSidecar(lock[p]) => MHeld[p] = M!Free
           /\ lock[p] # None /\ HasSidecar(lock[p]) =>
                /\ lock[p] \in Jtis /\ claim[lock[p]] \in Claim
                /\ MHeld[p] = [by |-> lock[p], id |-> claim[lock[p]].bid,
                               got |-> OwnOf(claim[lock[p]], claim[lock[p]].bid),
                               age |-> claim[lock[p]].age]
                /\ MHeld[p] # M!Free
           /\ MBox[p].id = bundle[p].id /\ MBox[p].files = bundle[p].files
<1>1. lock[p] = None \/ ~HasSidecar(lock[p]) => MHeld[p] = M!Free
  BY DEF MHeld, M!Free
<1>2. ASSUME lock[p] # None, HasSidecar(lock[p])
      PROVE  /\ lock[p] \in Jtis /\ claim[lock[p]] \in Claim
             /\ MHeld[p] = [by |-> lock[p], id |-> claim[lock[p]].bid,
                            got |-> OwnOf(claim[lock[p]], claim[lock[p]].bid),
                            age |-> claim[lock[p]].age]
  BY <1>2, SidecarType DEF TypeOK, MHeld
<1>3. lock[p] # None /\ HasSidecar(lock[p]) => MHeld[p] # M!Free
  BY <1>2 DEF M!Free
<1> QED
  BY <1>1, <1>2, <1>3 DEF MBox

\* What a step that touches neither the lock of p nor the sidecar it names, or
\* that leaves or removes the bundle there, looks like through the mapping.
LEMMA Unmoved ==
    ASSUME NEW p \in Paths
    PROVE  /\ lock'[p] = lock[p] /\ (lock[p] # None => claim'[lock[p]] = claim[lock[p]])
                => MHeld'[p] = MHeld[p]
           /\ bundle'[p] = bundle[p] => MBox'[p] = MBox[p]
           /\ bundle'[p].id = bundle[p].id /\ bundle'[p].files = bundle[p].files => MBox'[p] = MBox[p]
           /\ bundle'[p] = NoBundle => MBox'[p] = M!Empty
<1>1. lock'[p] = lock[p] /\ (lock[p] # None => claim'[lock[p]] = claim[lock[p]])
                => MHeld'[p] = MHeld[p]
  BY DEF MHeld, HasSidecar
<1> QED
  BY <1>1 DEF MBox, M!Empty, NoBundle

\* A claim on a path without orphaned claims is the hold on that path, and on no other.
LEMMA ClaimIsHold ==
    ASSUME TypeOK, LocksOwn, NEW j \in Jtis, HasSidecar(j), NoOrphanClaim(claim[j].path)
    PROVE  /\ claim[j].path \in Paths /\ lock[claim[j].path] = j /\ j # None
           /\ claim[j] \in Claim
           /\ MHeld[claim[j].path] = [by |-> j, id |-> claim[j].bid,
                                      got |-> OwnOf(claim[j], claim[j].bid),
                                      age |-> claim[j].age]
           /\ MHeld[claim[j].path] # M!Free
<1>1. claim[j].path \in Paths /\ j # None /\ claim[j] \in Claim
  BY SidecarType
<1>2. lock[claim[j].path] = j
  BY DEF NoOrphanClaim, ClaimsOn
<1> QED
  BY <1>1, <1>2, HoldFacts

\* A bundle arrives at one path.
LEMMA PutStep ==
    ASSUME TypeOK, NEW p \in Paths, NEW fs \in SUBSET Names, NEW r, Put(p, fs, r), NEW q \in Paths
    PROVE  /\ q = p => M!Arrives(q)
           /\ q # p => M!Stays(q)
<1>1. UNCHANGED <<lock, claim>> /\ count' = count + 1
  BY DEF Put
<1>2. MHeld'[q] = MHeld[q]
  BY <1>1, Unmoved
<1>3. q = p => MBox'[q] = [id |-> count + 1, files |-> fs]
  BY DEF Put, NewBundle, MBox, TypeOK
<1>4. q # p => MBox'[q] = MBox[q]
  BY Unmoved DEF Put, TypeOK
<1> QED
  BY <1>1, <1>2, <1>3, <1>4 DEF M!Arrives, M!Stays

\* Bundles may disappear without a hold on them changing.
LEMMA GoStep ==
    ASSUME UNCHANGED <<lock, claim>>, NEW q \in Paths,
           bundle'[q] = bundle[q] \/ bundle'[q] = NoBundle
    PROVE  M!Stays(q) \/ M!Goes(q)
  BY Unmoved DEF M!Stays, M!Goes

\* A pick takes a hold on a path that is free.
LEMMA PickStep ==
    ASSUME TypeOK, NEW p \in Paths, NEW j \in Jtis, PickReference(p, j), NEW q \in Paths
    PROVE  /\ q = p => M!Taken(q)
           /\ q # p => M!Stays(q)
<1>1. /\ Present(p) /\ lock[p] = None /\ j # None
      /\ lock' = [lock EXCEPT ![p] = j] /\ claim' = [claim EXCEPT ![j] = NewClaim(p)]
      /\ bundle' = bundle
      /\ lock[q] # j
  BY DEF PickReference, Fresh
<1>2. MBox'[q] = MBox[q]
  BY <1>1, Unmoved
<1>3. CASE q # p
  <2>1. lock'[q] = lock[q] /\ (lock[q] # None => claim'[lock[q]] = claim[lock[q]])
    BY <1>1, <1>3 DEF TypeOK
  <2> QED
    BY <1>2, <1>3, <2>1, Unmoved DEF M!Stays
<1>4. CASE q = p
  <2>1. lock'[p] = j /\ claim'[j] = NewClaim(p) /\ NewClaim(p) # NoClaim
    BY <1>1 DEF TypeOK, NewClaim, NoClaim
  <2>2. MHeld'[p] = [by |-> j, id |-> bundle[p].id, got |-> {}, age |-> 0]
    <3>1. NewClaim(p).own = {} /\ NewClaim(p).bid = bundle[p].id /\ NewClaim(p).age = 0
      BY DEF NewClaim
    <3>2. OwnOf(NewClaim(p), bundle[p].id) = {}
      BY <3>1 DEF OwnOf
    <3>3. MHeld'[p] = [by |-> j, id |-> NewClaim(p).bid,
                       got |-> OwnOf(NewClaim(p), NewClaim(p).bid), age |-> NewClaim(p).age]
      BY <1>1, <2>1 DEF MHeld, HasSidecar, OwnOf
    <3> QED
      BY <3>1, <3>2, <3>3
  <2>3. MHeld[p] = M!Free
    BY <1>1, HoldFacts
  <2>4. MBox[p] # M!Empty /\ MBox[p].id = bundle[p].id
    BY <1>1, HoldFacts DEF Present, TypeOK, Bundle, M!Empty, MBox
  <2> QED
    BY <1>2, <1>4, <2>2, <2>3, <2>4 DEF M!Taken
<1> QED
  BY <1>3, <1>4

\* The end of a download under a claim is a hand-over, the settlement, or a
\* settlement that an error or a crash cuts short; no other path notices.
LEMMA AccountStep ==
    ASSUME TypeOK, LocksOwn, LossInv, NEW s \in Streams, NEW q \in Paths, NoOrphanClaim(q),
           FinishPartial(s) \/ FinishComplete(s) \/ FinishFails(s) \/ CrashInAccounting(s)
    PROVE  /\ q = claim[stream[s].jti].path => M!HandedOver(q) \/ M!Settled(q) \/ M!CutShort(q)
           /\ q # claim[stream[s].jti].path => M!Stays(q)
<1> DEFINE st == stream[s]
           j == st.jti
<1>1. /\ st # NoStream /\ HasSidecar(j) /\ st \in Stream /\ j \in Jtis /\ claim[j] \in Claim
      /\ claim[j].path \in Paths /\ st.path = claim[j].path /\ st.name \in Names
  BY MarkedFacts DEF FinishPartial, FinishComplete, FinishFails, CrashInAccounting, Stream, Claim, LossInv, StreamsMatch
<1>0. Marked(s) # NoClaim
  BY <1>1, MarkedFacts DEF Claim, NoClaim
<1>2. /\ \A i \in Jtis \ {j} : claim'[i] = claim[i]
      /\ \/ claim'[j] = Marked(s) /\ UNCHANGED <<bundle, lock>>
         \/ /\ Completes(s)
            /\ bundle' = [bundle EXCEPT ![st.path] = NoBundle]
            /\ lock' = [lock EXCEPT ![claim[j].path] = None]
         \/ /\ Completes(s)
            /\ bundle' = [bundle EXCEPT ![st.path] = NoBundle]
            /\ claim'[j] = Marked(s) /\ UNCHANGED lock
  BY <1>0, <1>1 DEF FinishPartial, FinishComplete, FinishFails, CrashInAccounting, TypeOK
<1>3. CASE q # claim[j].path
  <2>1. lock[q] # j
    BY <1>1, <1>3 DEF LocksOwn
  <2>2. bundle'[q] = bundle[q] /\ lock'[q] = lock[q]
    BY <1>1, <1>2, <1>3 DEF TypeOK
  <2>3. lock[q] # None => claim'[lock[q]] = claim[lock[q]]
    BY <1>2, <2>1 DEF TypeOK
  <2> QED
    BY <1>3, <2>2, <2>3, Unmoved DEF M!Stays
<1>4. CASE q = claim[j].path
  <2> DEFINE G == OwnOf(Marked(s), Marked(s).bid)
  <2>1. /\ lock[q] = j /\ j # None
        /\ MHeld[q] = [by |-> j, id |-> claim[j].bid,
                       got |-> OwnOf(claim[j], claim[j].bid), age |-> claim[j].age]
        /\ MHeld[q] # M!Free
    BY <1>1, <1>4, ClaimIsHold
  <2>2. /\ G \in SUBSET Names /\ OwnOf(claim[j], claim[j].bid) \subseteq G
        /\ G \subseteq OwnOf(claim[j], claim[j].bid) \cup {st.name}
        /\ Marked(s).bid = claim[j].bid /\ Marked(s).age = claim[j].age /\ Marked(s) # NoClaim
    BY <1>0, <1>1, MarkedFacts, MarkedOwnOf
  <2>3. M!Receives(q, G)
    BY <1>1, <2>1, <2>2 DEF M!Receives
  <2>4. Completes(s) => M!MayConsume(q, G)
    <3> SUFFICES ASSUME Completes(s), bundle[q].id = claim[j].bid PROVE bundle[q].files \subseteq G
      BY <2>1, HoldFacts DEF M!MayConsume
    <3>1. Untouched(j)
      BY <1>1, <1>4 DEF Untouched
    <3>2. st.manifest = bundle[q].files
      BY <1>1, <1>4, <3>1 DEF LossInv, StreamsRead
    <3> QED
      BY <1>1, <3>1, <3>2, MarkedOwn DEF Completes
  <2>5. claim'[j] = Marked(s) /\ UNCHANGED lock => MHeld'[q] = [MHeld[q] EXCEPT !.got = G]
    <3> SUFFICES ASSUME claim'[j] = Marked(s), UNCHANGED lock
                 PROVE  MHeld'[q] = [MHeld[q] EXCEPT !.got = G]
      OBVIOUS
    <3>1. MHeld'[q] = [by |-> j, id |-> claim[j].bid, got |-> G, age |-> claim[j].age]
      BY <2>1, <2>2 DEF MHeld, HasSidecar
    <3> QED
      BY <2>1, <3>1
  <2>6. lock' = [lock EXCEPT ![claim[j].path] = None] => MHeld'[q] = M!Free
    BY <1>4 DEF MHeld, M!Free, TypeOK
  <2>7. bundle' = [bundle EXCEPT ![st.path] = NoBundle] => MBox'[q] = M!Empty
    BY <1>1, <1>4, Unmoved DEF TypeOK
  <2>8. bundle' = bundle => MBox'[q] = MBox[q]
    BY Unmoved
  <2>9. CASE claim'[j] = Marked(s) /\ UNCHANGED <<bundle, lock>>
    <3>1. M!HandedOver(q)
      BY <2>2, <2>3, <2>5, <2>8, <2>9 DEF M!HandedOver
    <3> QED
      BY <1>4, <2>9, <3>1
  <2>10. CASE /\ Completes(s)
              /\ bundle' = [bundle EXCEPT ![st.path] = NoBundle]
              /\ lock' = [lock EXCEPT ![claim[j].path] = None]
    <3>1. M!Settled(q)
      BY <2>2, <2>3, <2>4, <2>6, <2>7, <2>10 DEF M!Settled
    <3> QED
      BY <1>4, <3>1
  <2>11. CASE /\ Completes(s)
              /\ bundle' = [bundle EXCEPT ![st.path] = NoBundle]
              /\ claim'[j] = Marked(s) /\ UNCHANGED lock
    <3>1. M!CutShort(q)
      BY <2>2, <2>3, <2>4, <2>5, <2>7, <2>11 DEF M!CutShort
    <3> QED
      BY <1>4, <2>11, <3>1
  <2> QED
    BY <1>2, <2>9, <2>10, <2>11
<1> QED
  BY <1>3, <1>4

\* The reaper, cut short or not, ends only holds whose time is over, and consumes
\* only what they handed over.
LEMMA SweepStep ==
    ASSUME TypeOK, LocksOwn, LossInv, NEW q \in Paths, NoOrphanClaim(q),
           NEW B \in SUBSET Overdue, NEW L \in SUBSET B, NEW S \in SUBSET L, NEW F,
           SweepEffect(B, L, S, F)
    PROVE  M!Stays(q) \/ M!Goes(q) \/ M!Lapses(q)
<1> DEFINE i == lock[q]
<1>1. \A j \in B : j \in Jtis /\ HasSidecar(j) /\ claim[j].age >= ClaimTTL
  BY DEF Overdue
<1>2. \A j \in B : claim[j].path = q => j = i
  BY <1>1 DEF NoOrphanClaim, ClaimsOn
<1>3. i \in B => claim[i].path = q /\ i # None
  BY <1>1, NoneAssumption DEF LocksOwn
<1>4. /\ \/ bundle'[q].id = bundle[q].id /\ bundle'[q].files = bundle[q].files
         \/ bundle'[q] = NoBundle /\ i \in B /\ SweepCompletes(i)
      /\ lock'[q] = IF i \in L THEN None ELSE i
      /\ i \in Jtis \ S => claim'[i] = claim[i]
  <2>1. \/ bundle'[q].id = bundle[q].id /\ bundle'[q].files = bundle[q].files
        \/ bundle'[q] = NoBundle /\ i \in B /\ SweepCompletes(i)
    BY <1>2, SweptBundle
  <2> QED
    BY <1>2, <1>3, <2>1 DEF SweepEffect
<1>5. CASE i \notin L
  <2>1. lock'[q] = lock[q] /\ (lock[q] # None => claim'[lock[q]] = claim[lock[q]])
    BY <1>4, <1>5 DEF TypeOK
  <2> QED
    BY <1>4, <2>1, Unmoved DEF M!Stays, M!Goes
<1>6. CASE i \in L
  <2>1. /\ MHeld[q] = [by |-> i, id |-> claim[i].bid,
                       got |-> OwnOf(claim[i], claim[i].bid), age |-> claim[i].age]
        /\ MHeld[q] # M!Free /\ i \in Jtis /\ HasSidecar(i) /\ claim[i].age >= ClaimTTL
    BY <1>1, <1>3, <1>6, HoldFacts
  <2>2. MHeld'[q] = M!Free
    BY <1>4, <1>6 DEF MHeld, M!Free
  <2>3. SweepCompletes(i) => M!MayConsume(q, MHeld[q].got)
    <3> SUFFICES ASSUME SweepCompletes(i), bundle[q].id = claim[i].bid
                 PROVE  bundle[q].files \subseteq OwnOf(claim[i], claim[i].bid)
      BY <2>1, HoldFacts DEF M!MayConsume
    <3>1. claim[i].path = q
      BY <1>3, <1>6
    <3> QED
      BY <2>1, <3>1 DEF SweepCompletes, LossInv, FetchedOwn, Untouched
  <2>4. MBox'[q] = MBox[q] \/ (MBox'[q] = M!Empty /\ SweepCompletes(i))
    BY <1>4, Unmoved
  <2>5. MHeld[q].age >= ClaimTTL
    BY <2>1
  <2>6. M!Lapses(q)
    BY <2>1, <2>2, <2>3, <2>4, <2>5 DEF M!Lapses
  <2> QED
    BY <2>6
<1> QED
  BY <1>5, <1>6

\* Time passes for every hold alike.
LEMMA TickStep == ASSUME TypeOK, Tick, NEW p \in Paths PROVE M!Ages(p)
<1>1. /\ lock' = lock
      /\ bundle'[p].id = bundle[p].id /\ bundle'[p].files = bundle[p].files
  BY DEF Tick, Present, TypeOK, Bundle, NoBundle
<1>2. MBox'[p] = MBox[p]
  BY <1>1 DEF MBox
<1>3. MHeld'[p] = IF MHeld[p] # M!Free /\ MHeld[p].age < ClaimTTL
                  THEN [MHeld[p] EXCEPT !.age = @ + 1] ELSE MHeld[p]
  <2>1. CASE lock[p] = None \/ ~HasSidecar(lock[p])
    <3>1. lock[p] # None => claim'[lock[p]] = claim[lock[p]]
      BY <2>1 DEF Tick, HasSidecar, TypeOK
    <3> QED
      BY <1>1, <2>1, <3>1, Unmoved, HoldFacts
  <2>2. CASE lock[p] # None /\ HasSidecar(lock[p])
    <3> DEFINE c == claim[lock[p]]
    <3>1. /\ lock[p] \in Jtis /\ c \in Claim /\ MHeld[p] # M!Free
          /\ MHeld[p] = [by |-> lock[p], id |-> c.bid, got |-> OwnOf(c, c.bid), age |-> c.age]
      BY <2>2, HoldFacts
    <3>2. claim'[lock[p]] = [c EXCEPT !.age = Older(@, ClaimTTL)]
      BY <2>2, <3>1 DEF Tick
    <3>3. claim'[lock[p]] # NoClaim
      BY <3>1, <3>2 DEF Claim, NoClaim
    <3>4. MHeld'[p] = [by |-> lock[p], id |-> c.bid,
                       got |-> OwnOf(c, c.bid), age |-> Older(c.age, ClaimTTL)]
      BY <1>1, <2>2, <3>1, <3>2, <3>3 DEF MHeld, Claim, HasSidecar, OwnOf
    <3>5. c.age \in 0..ClaimTTL
      BY <3>1 DEF Claim
    <3>6. CASE c.age < ClaimTTL
      BY <3>1, <3>4, <3>6 DEF Older
    <3>7. CASE ~(c.age < ClaimTTL)
      <4>1. Older(c.age, ClaimTTL) = c.age
        BY <3>5, <3>7, TTLAssumption DEF Older
      <4> QED
        BY <3>1, <3>4, <3>7, <4>1
    <3> QED
      BY <3>6, <3>7
  <2> QED
    BY <2>1, <2>2
<1> QED
  BY <1>2, <1>3 DEF M!Ages

\* The inbox, with its lock files, sidecars, tokens, downloads and loops, keeps
\* the promise of Mailbox for any number of paths, readers and downloads, as
\* long as the process does not die inside issue(), the accounting or a sweep; a
\* delete that fails there breaks nothing.
THEOREM MailboxImplemented == Spec => ImplementsMailbox
<1>1. Init => M!Init
  BY DEF Init, M!Init, MBox, MHeld, M!Empty, M!Free, NoBundle
<1>2. TypeOK /\ ClaimsExclusive /\ LocksOwn /\ LossInv /\ [Next]_vars => [M!Next]_(M!vars)
  <2> SUFFICES ASSUME TypeOK, ClaimsExclusive, LocksOwn, LossInv, [Next]_vars
               PROVE  M!Next \/ UNCHANGED M!vars
    OBVIOUS
  <2>0. MBox' = [p \in Paths |-> MBox'[p]] /\ MHeld' = [p \in Paths |-> MHeld'[p]]
    BY DEF MBox, MHeld
  <2>1. ASSUME UNCHANGED <<bundle, count, lock, claim>> PROVE UNCHANGED M!vars
    BY <2>1 DEF M!vars, MBox, MHeld, HasSidecar
  <2>2. \A q \in Paths : NoOrphanClaim(q)
    BY NoneAssumption DEF NoOrphanClaim, ClaimsOn, ClaimsExclusive, HasSidecar, NoClaim
  <2>3. ASSUME NEW p \in Paths, NEW fs \in (SUBSET Names) \ {{}}, NEW r \in BOOLEAN, Put(p, fs, r)
        PROVE  M!Next
    <3>1. M!Request(p)
      BY <2>3, PutStep DEF M!Request
    <3> QED
      BY <2>0, <3>1 DEF M!Next
  <2>4. ASSUME (\E p \in Paths : RemoveBundle(p)) \/ TTLCleanup PROVE M!Next
    <3>1. /\ \A p \in Paths : bundle'[p] = bundle[p] \/ bundle'[p] = NoBundle
          /\ UNCHANGED <<count, lock, claim>>
      BY <2>4 DEF RemoveBundle, TTLCleanup, TypeOK
    <3>2. M!Housekeeping
      BY <3>1, GoStep DEF M!Housekeeping
    <3> QED
      BY <2>0, <3>2 DEF M!Next
  <2>5. ASSUME NEW p \in Paths, NEW j \in Jtis, PickReference(p, j) PROVE M!Next
    <3>1. M!Request(p)
      BY <2>5, PickStep DEF M!Request, PickReference
    <3> QED
      BY <2>0, <3>1 DEF M!Next
  <2>6. ASSUME NEW s \in Streams, FinishPartial(s) \/ FinishComplete(s) \/ FinishFails(s) PROVE M!Next
    <3> DEFINE p == claim[stream[s].jti].path
    <3>2. p \in Paths /\ count' = count
      BY <2>6, MarkedFacts DEF FinishPartial, FinishComplete, FinishFails, Claim
    <3>3. M!HandedOver(p) \/ M!Settled(p) \/ M!CutShort(p)
      BY <2>2, <2>6, <3>2, AccountStep
    <3>4. \A q \in Paths \ {p} : M!Stays(q)
      BY <2>2, <2>6, AccountStep
    <3> QED
      BY <2>0, <3>2, <3>3, <3>4 DEF M!Next, M!Request
  <2>7. CASE Sweep
    <3>1. PICK F \in SUBSET Overdue : SweepEffect(Overdue, Overdue, Overdue, F)
      BY <2>7 DEF Sweep
    <3>2. \A q \in Paths : M!Stays(q) \/ M!Goes(q) \/ M!Lapses(q)
      BY <2>2, <3>1, SweepStep
    <3>3. count' = count
      BY <3>1 DEF SweepEffect
    <3>4. M!Housekeeping
      BY <3>2, <3>3 DEF M!Housekeeping
    <3> QED
      BY <2>0, <3>4 DEF M!Next
  <2>8. CASE Tick
    <3>1. M!Tick
      BY <2>8, TickStep DEF M!Tick, Tick
    <3> QED
      BY <2>0, <3>1 DEF M!Next
  <2> QED
    BY <2>1, <2>3, <2>4, <2>5, <2>6, <2>7, <2>8, NextCases
    DEF NextStep, GetReference, OpenDownload, AbortDownload, FinishUnclaimed, vars
<1>3. Spec => CrashSpec
  <2>1. [Next]_vars => [CrashNext]_vars
    BY DEF CrashNext
  <2> QED
    BY <2>1, PTL DEF Spec, CrashSpec
<1>4. QED
  BY <1>1, <1>2, <1>3, Exclusive, SpecTypeCorrect, LossInvariant, LocksOwnAlways, PTL
  DEF Spec, ImplementsMailbox, M!Spec

-----------------------------------------------------------------------------
(* The same through crashes, for every path on which no claim is orphaned.  *)

\* Whatever happens to such a path, Mailbox allows it.
LEMMA PathStepKept ==
    ASSUME TypeOK, LocksOwn, LossInv, CrashNext, NEW q \in Paths, NoOrphanClaim(q)
    PROVE  M!PathStep(q)
<1> USE DEF M!PathStep
<1>1. ASSUME UNCHANGED <<lock, claim>>, bundle'[q] = bundle[q] \/ bundle'[q] = NoBundle
      PROVE  M!PathStep(q)
  BY <1>1, GoStep
<1>2. ASSUME NEW p \in Paths, NEW fs \in (SUBSET Names) \ {{}}, NEW r \in BOOLEAN, Put(p, fs, r)
      PROVE  M!PathStep(q)
  BY <1>2, PutStep
<1>3. ASSUME (\E p \in Paths : RemoveBundle(p)) \/ TTLCleanup PROVE M!PathStep(q)
  BY <1>1, <1>3 DEF RemoveBundle, TTLCleanup, TypeOK
<1>4. ASSUME NEW p \in Paths, NEW j \in Jtis, PickReference(p, j) PROVE M!PathStep(q)
  BY <1>4, PickStep
<1>5. ASSUME NEW p \in Paths, NEW j \in Jtis, CrashInIssue(p, j) PROVE M!PathStep(q)
  <2>1. /\ lock[p] = None /\ lock' = [lock EXCEPT ![p] = j] /\ ~HasSidecar(j)
        /\ UNCHANGED <<bundle, claim>>
    BY <1>5 DEF CrashInIssue, Fresh, HasSidecar
  <2>2. CASE q = p
    <3>1. MHeld'[q] = M!Free /\ MHeld[q] = M!Free
      BY <2>1, <2>2, HoldFacts DEF MHeld, M!Free, HasSidecar, TypeOK
    <3> QED
      BY <2>1, <3>1, Unmoved DEF M!Stays
  <2>3. CASE q # p
    BY <2>1, <2>3, Unmoved DEF M!Stays, TypeOK
  <2> QED
    BY <2>2, <2>3
<1>6. ASSUME NEW s \in Streams, \/ FinishPartial(s) \/ FinishComplete(s)
                                \/ FinishFails(s) \/ CrashInAccounting(s)
      PROVE  M!PathStep(q)
  BY <1>6, AccountStep
<1>7. CASE Sweep
  BY <1>7, SweepStep DEF Sweep
<1>8. CASE CrashInSweep
  <2>1. PICK B \in SUBSET Overdue :
           \E L \in SUBSET B : \E S \in SUBSET L : \E F : SweepEffect(B, L, S, F)
    BY <1>8, CrashInSweepFacts
  <2> QED
    BY <2>1, SweepStep
<1>9. CASE Tick
  BY <1>9, TickStep
<1> HIDE DEF M!PathStep
<1> QED
  BY <1>1, <1>2, <1>3, <1>4, <1>5, <1>6, <1>7, <1>8, <1>9, CrashNextCases
  DEF NextStep, GetReference, OpenDownload, AbortDownload, FinishUnclaimed, CrashIdle

\* Claims that go or keep their path, on a path whose lock stays, leave no orphan.
LEMMA NoOrphanKept ==
    ASSUME NEW q \in Paths, NoOrphanClaim(q), lock'[q] = lock[q],
           \A j \in Jtis : claim'[j].path = claim[j].path \/ claim'[j].path # q
    PROVE  NoOrphanClaim(q)'
  BY DEF NoOrphanClaim, ClaimsOn

\* No handler and no loop pass that runs to its end orphans a claim.
LEMMA NoOrphanStep ==
    ASSUME TypeOK, LocksOwn, Next, NEW q \in Paths, NoOrphanClaim(q)
    PROVE  NoOrphanClaim(q)'
<1>1. ASSUME UNCHANGED <<lock, claim>> PROVE NoOrphanClaim(q)'
  BY <1>1, NoOrphanKept
<1>2. ASSUME NEW p \in Paths, NEW j \in Jtis, PickReference(p, j) PROVE NoOrphanClaim(q)'
  <2>1. /\ lock[p] = None /\ lock' = [lock EXCEPT ![p] = j]
        /\ claim' = [claim EXCEPT ![j] = NewClaim(p)] /\ NewClaim(p).path = p
    BY <1>2 DEF PickReference, NewClaim
  <2>2. CASE q = p
    <3>1. ClaimsOn(q) = {}
      BY <2>1, <2>2, NoneAssumption DEF NoOrphanClaim, ClaimsOn
    <3> QED
      BY <2>1, <2>2, <3>1 DEF NoOrphanClaim, ClaimsOn, TypeOK
  <2>3. CASE q # p
    BY <2>1, <2>3, NoOrphanKept DEF TypeOK
  <2> QED
    BY <2>2, <2>3
<1>3. ASSUME NEW s \in Streams, FinishPartial(s) \/ FinishFails(s) PROVE NoOrphanClaim(q)'
  <2>1. Marked(s).path = claim[stream[s].jti].path /\ stream[s].jti \in Jtis
    BY <1>3, MarkedFacts DEF FinishPartial, FinishFails
  <2> QED
    BY <1>3, <2>1, NoOrphanKept DEF FinishPartial, FinishFails, TypeOK
<1>4. ASSUME NEW s \in Streams, FinishComplete(s) PROVE NoOrphanClaim(q)'
  <2> DEFINE j == stream[s].jti
  <2>1. /\ j \in Jtis /\ claim[j].path \in Paths
        /\ lock' = [lock EXCEPT ![claim[j].path] = None] /\ claim' = [claim EXCEPT ![j] = NoClaim]
    BY <1>4, MarkedFacts DEF FinishComplete, Claim
  <2>2. CASE q # claim[j].path
    BY <2>1, <2>2, NoOrphanKept, NoneAssumption DEF TypeOK, NoClaim
  <2>3. CASE q = claim[j].path
    <3>1. ClaimsOn(q) \subseteq {j}
      BY <2>1, <2>3 DEF NoOrphanClaim, ClaimsOn
    <3> QED
      BY <2>1, <3>1, NoneAssumption DEF NoOrphanClaim, ClaimsOn, NoClaim, TypeOK
  <2> QED
    BY <2>2, <2>3
<1>5. CASE Sweep
  <2>1. /\ lock' = [p \in Paths |-> IF \E j \in Overdue : claim[j].path = p THEN None ELSE lock[p]]
        /\ claim' = [j \in Jtis |-> IF j \in Overdue THEN NoClaim ELSE claim[j]]
    BY <1>5 DEF Sweep, SweepEffect
  <2>2. CASE \E j \in Overdue : claim[j].path = q
    <3>1. ClaimsOn(q) \subseteq Overdue
      BY <2>2 DEF NoOrphanClaim, ClaimsOn, Overdue
    <3> QED
      BY <2>1, <3>1, NoneAssumption DEF NoOrphanClaim, ClaimsOn, NoClaim
  <2>3. CASE ~ \E j \in Overdue : claim[j].path = q
    BY <2>1, <2>3, NoOrphanKept, NoneAssumption DEF NoClaim
  <2> QED
    BY <2>2, <2>3
<1>6. CASE Tick
  <2>1. lock' = lock /\ \A j \in Jtis : claim'[j].path = claim[j].path
    BY <1>6 DEF Tick, HasSidecar, TypeOK, Claim
  <2> QED
    BY <2>1, NoOrphanKept
<1> QED
  BY <1>1, <1>2, <1>3, <1>4, <1>5, <1>6, NextCases
  DEF NextStep, Put, RemoveBundle, GetReference, OpenDownload, AbortDownload, FinishUnclaimed, TTLCleanup

\* The promise of Mailbox through crashes: it can be broken on a path only after a
\* crash between the two unlinks of a settlement on that very path.  A crash
\* anywhere else, and one on another path, takes nothing from a holder.
THEOREM PromiseKeptThroughCrashes == CrashSpec => PathPromise
<1>1. TypeOK /\ LocksOwn /\ LossInv /\ [CrashNext]_vars
        => [\A p \in Paths : NoOrphanClaim(p) =>
              M!PathStep(p) /\ (Next => NoOrphanClaim(p)')]_vars
  BY PathStepKept, NoOrphanStep
<1> QED
  BY <1>1, TypeCorrect, LocksOwnAlways, LossInvariant, PTL DEF CrashSpec, PathPromise
=============================================================================
