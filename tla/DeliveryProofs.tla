---------------------------- MODULE DeliveryProofs ----------------------------
(***************************************************************************)
(* The properties of Delivery for any agents, sessions, manifests, limits  *)
(* and lifetimes.                                                          *)
(***************************************************************************)
EXTENDS Delivery, ManifestNamesProofs, TLAPS

-----------------------------------------------------------------------------
(* Facts about single values *)

\* A session that is not NoSession has the fields of a token.
LEMMA SessionShape ==
    /\ NoSession \notin Session
    /\ NoSession.life = 0
    /\ \A x \in Session : /\ x.from \in Agents \cup {Operator} /\ x.to \in Inboxes
                          /\ x.mode \in {"inline", "batch"}
                          /\ x.man \in Manifests /\ x.life \in 0..UploadTTL /\ x.cap \in Configs
BY DEF Session, NoSession

\* What a client can send could also be declared.
LEMMA ContentsAreManifests == Contents \subseteq Manifests
BY DEF Contents

\* The session of an accepted token or of an upload in progress is a session.
LEMMA LiveSession ==
    ASSUME TypeOK, NEW s \in Sids, session[s].life > 0 \/ s \in uploads
    PROVE  session[s] \in Session
BY SessionShape DEF TypeOK

\* A bundle that is written has the shape of one.
LEMMA NewBundleShape ==
    ASSUME NEW c \in Contents, NEW cap \in Configs
    PROVE  /\ NewBundle(c, cap) \in Bundle
           /\ NewBundle(c, cap).kind = "bundle"
           /\ NewBundle(c, cap).files = c /\ NewBundle(c, cap).cap = cap
BY DEF NewBundle, Bundle

\* What NoteUse records is one of the numbers it compares.
LEMMA Noted ==
    ASSUME TypeOK, NEW s \in Sids, session[s] \in Session, NoteUse(s)
    PROVE  late' \in Lateness(s) /\ Lateness(s) \subseteq Nat
<1> DEFINE y == IF session[s].from \in Agents THEN gone[session[s].from] ELSE late
           z == IF session[s].to \in Agents THEN gone[session[s].to] ELSE late
<1>1. late \in Nat /\ y \in Nat /\ z \in Nat
  BY BoundAssumption DEF TypeOK
<1>2. Lateness(s) = {late, y, z}
  BY DEF Lateness
<1>3. \E n \in {late, y, z} : \A k \in {late, y, z} : k <= n
  <2> HIDE DEF y, z
  <2>1. CASE late >= y /\ late >= z  BY <2>1, <1>1
  <2>2. CASE y >= late /\ y >= z     BY <2>2, <1>1
  <2>3. CASE z >= late /\ z >= y     BY <2>3, <1>1
  <2> QED BY <2>1, <2>2, <2>3, <1>1
<1> HIDE DEF y, z
<1>4. late' = CHOOSE n \in Lateness(s) : \A k \in Lateness(s) : k <= n
  BY DEF NoteUse
<1>5. \E n \in Lateness(s) : \A k \in Lateness(s) : k <= n
  BY <1>2, <1>3
<1>6. late' \in Lateness(s)
  BY <1>4, <1>5
<1> QED
  BY <1>1, <1>2, <1>6

-----------------------------------------------------------------------------
(* Types *)

\* The initial states have their shape.
LEMMA TypeInit == Init => TypeOK
BY BoundAssumption, SessionShape DEF Init, TypeOK, Inboxes

\* The answer of a broadcast has its shape.
LEMMA ReportShape ==
    ASSUME NEW c \in Contents, NEW seen, NEW may, NEW bad, NEW blind \in BOOLEAN,
           seen \subseteq Agents, may \subseteq seen, bad \subseteq may
    PROVE  [files |-> c, seen |-> seen, delivered |-> may \ bad, denied |-> seen \ may,
            failed |-> bad, result |-> Result(seen, may \ bad, blind)] \in Report
<1>1. Result(seen, may \ bad, blind) \in {"success", "partial", "noop", "error"}
  BY DEF Result
<1> QED
  BY <1>1 DEF Report

\* How a broadcast ends, with its choices named.
Outcome(from, c, blind, seen, may, bad, kept) ==
    /\ seen \subseteq active \ {from} /\ may \subseteq seen
    /\ bad \subseteq may /\ kept \subseteq bad
    /\ blind \in BOOLEAN /\ (blind => seen = {})
    /\ inbox' = [a \in Inboxes |-> CASE a \in may \ bad -> NewBundle(c, config)
                                    [] a \in bad \ kept -> Free
                                    [] OTHER -> inbox[a]]
    /\ report' = [files |-> c, seen |-> seen, delivered |-> may \ bad, denied |-> seen \ may,
                  failed |-> bad, result |-> Result(seen, may \ bad, blind)]

\* Every broadcast ends in one of these ways.
LEMMA BroadcastOutcome ==
    ASSUME NEW from, NEW c, Broadcast(from, c)
    PROVE  \E blind, seen, may, bad, kept :
              Outcome(from, c, blind, seen, may, bad, kept)
<1>1. PICK blind \in BOOLEAN, seen \in SUBSET (active \ {from}) :
      \E may \in SUBSET seen : \E bad \in SUBSET may : \E kept \in SUBSET bad :
        /\ blind => seen = {}
        /\ ~Storable(c) => bad = may
        /\ inbox' = [a \in Inboxes |-> CASE a \in may \ bad -> NewBundle(c, config)
                                        [] a \in bad \ kept -> Free
                                        [] OTHER -> inbox[a]]
        /\ report' = [files |-> c, seen |-> seen, delivered |-> may \ bad,
                      denied |-> seen \ may, failed |-> bad,
                      result |-> Result(seen, may \ bad, blind)]
  BY DEF Broadcast
<1>2. \E may, bad, kept : Outcome(from, c, blind, seen, may, bad, kept)
  BY <1>1 DEF Outcome
<1> QED
  BY <1>2

\* Every step keeps the shape of the state.
LEMMA TypeStep ==
    ASSUME TypeOK, [Next]_vars
    PROVE  TypeOK'
<1> USE SessionShape
<1>1. ASSUME NEW a \in Agents, Revoke(a) PROVE TypeOK'
  BY <1>1 DEF Revoke, TypeOK, NoAnswer
<1>2. ASSUME NEW a \in Agents, CreateKey(a) PROVE TypeOK'
  BY <1>2, BoundAssumption DEF CreateKey, TypeOK, NoAnswer
<1>3. CASE Tick
  <2>1. ASSUME NEW s \in Sids
        PROVE  /\ Aged(s) \in Session \cup {NoSession}
               /\ s \in uploads => Aged(s) # NoSession
    <3>1. session[s] \in Session \/ (session[s] = NoSession /\ s \notin uploads)
      BY DEF TypeOK
    <3>2. CASE session[s] \in Session /\ session[s].life > 0
      <4>1. [session[s] EXCEPT !.life = @ - 1] \in Session
        BY <3>2, BoundAssumption DEF Session
      <4> QED BY <4>1, <3>2, BoundAssumption DEF Aged
    <3>3. CASE session[s] \in Session /\ session[s].life = 0
      BY <3>3 DEF Aged
    <3>4. CASE session[s] = NoSession /\ s \notin uploads
      BY <3>4 DEF Aged
    <3> QED
      BY <3>1, <3>2, <3>3, <3>4, BoundAssumption
  <2>2. session' \in [Sids -> Session \cup {NoSession}]
        /\ uploads \subseteq {s \in Sids : session'[s] # NoSession}
    BY <1>3, <2>1 DEF Tick, TypeOK
  <2>3. gone' \in [Agents -> 0..UploadTTL]
    BY <1>3, BoundAssumption DEF Tick, TypeOK
  <2> QED
    BY <1>3, <2>2, <2>3 DEF Tick, TypeOK, NoAnswer
<1>4. ASSUME NEW s \in Sids, NEW from \in Agents \cup {Operator}, NEW to \in Inboxes,
             NEW m \in Manifests, NEW inl \in BOOLEAN, SendInit(s, from, to, m, inl)
      PROVE TypeOK'
  <2>1. [from |-> from, to |-> to, man |-> m, life |-> UploadTTL, cap |-> config,
         mode |-> IF inl THEN Mode(m, config) ELSE "batch"] \in Session
    BY BoundAssumption DEF Session, Mode, TypeOK
  <2> QED
    BY <1>4, <2>1 DEF SendInit, TypeOK, NoAnswer
<1>5. ASSUME NEW s \in Sids, BeginUpload(s) PROVE TypeOK'
  <2>1. session[s] \in Session
    BY <1>5, LiveSession DEF BeginUpload, Accepts
  <2>2. late' \in Nat
    BY <1>5, <2>1, Noted DEF BeginUpload
  <2> QED
    BY <1>5, <2>1, <2>2 DEF BeginUpload, TypeOK, NoAnswer
<1>6. ASSUME NEW s \in Sids, AbortUpload(s) PROVE TypeOK'
  <2>1. session[s] \in Session
    BY <1>6, LiveSession DEF AbortUpload
  <2> QED
    BY <1>6, <2>1 DEF AbortUpload, Forget, TypeOK, NoAnswer
<1>7. ASSUME NEW s \in Sids, NEW c \in Contents, SendInline(s, c) PROVE TypeOK'
  <2>1. session[s] \in Session
    BY <1>7, LiveSession DEF SendInline, Accepts
  <2>2. late' \in Nat
    BY <1>7, <2>1, Noted DEF SendInline
  <2>3. NewBundle(c, session[s].cap) \in Bundle
    BY <2>1, NewBundleShape
  <2> QED
    BY <1>7, <2>1, <2>2, <2>3 DEF SendInline, TypeOK, NoAnswer
<1>8. ASSUME NEW s \in Sids, NEW c \in Contents, CommitUpload(s, c) PROVE TypeOK'
  <2>1. session[s] \in Session
    BY <1>8, LiveSession DEF CommitUpload
  <2>2. NewBundle(c, session[s].cap) \in Bundle
    BY <2>1, NewBundleShape
  <2> QED
    BY <1>8, <2>1, <2>2 DEF CommitUpload, Forget, TypeOK, NoAnswer
<1>9. ASSUME NEW from \in Agents \cup {Operator}, NEW c \in Contents, Broadcast(from, c)
      PROVE TypeOK'
  <2>1. PICK blind, seen, may, bad, kept : Outcome(from, c, blind, seen, may, bad, kept)
    BY <1>9, BroadcastOutcome
  <2>2. NewBundle(c, config) \in Bundle
    BY NewBundleShape DEF TypeOK
  <2>3. inbox' \in [Inboxes -> Bundle \cup {Free, InFlight}]
    BY <2>1, <2>2 DEF TypeOK, Outcome
  <2>4. report' \in Report
    <3>1. seen \subseteq Agents /\ may \subseteq seen /\ bad \subseteq may
      BY <2>1 DEF Outcome, TypeOK
    <3> QED
      BY <2>1, <3>1, ReportShape DEF Outcome
  <2> QED
    BY <1>9, <2>3, <2>4 DEF Broadcast, TypeOK
<1>10. ASSUME NEW a \in Inboxes, Take(a) \/ Reap(a) PROVE TypeOK'
  BY <1>10 DEF Take, Reap, TypeOK, NoAnswer
<1>11. ASSUME NEW cfg \in Configs, Restart(cfg) PROVE TypeOK'
  BY <1>11 DEF Restart, TypeOK, NoAnswer
<1>12. CASE UNCHANGED vars
  BY <1>12 DEF vars, TypeOK
<1> QED
  BY <1>1, <1>2, <1>3, <1>4, <1>5, <1>6, <1>7, <1>8, <1>9, <1>10, <1>11, <1>12 DEF Next

\* Sessions, inboxes and answers keep their shape, and an upload in progress
\* keeps its claims although its token runs out.
THEOREM TypeCorrect == Spec => []TypeOK
BY TypeInit, TypeStep, PTL DEF Spec

-----------------------------------------------------------------------------
(* Tokens.  Every session passed the checks of phase 1; an active label has  *)
(* not been away; the rest of a token's life and the time its labels have    *)
(* been revoked add up to no more than upload_token_ttl.                     *)

Admitted == \A s \in Sids : session[s] # NoSession =>
                /\ ValidNames(DOMAIN session[s].man)
                /\ ~CapExceeded(session[s].man, session[s].cap)
Present == \A a \in active : gone[a] = 0
Wanes == \A s \in Sids : session[s].life > 0 =>
            \A a \in {session[s].from, session[s].to} \cap Agents :
                session[s].life + gone[a] <= UploadTTL
AdmittedBundles == \A a \in Inboxes : inbox[a].kind = "bundle" =>
                      ~CapExceeded(inbox[a].files, inbox[a].cap)

Inv == TypeOK /\ Admitted /\ Present /\ Wanes /\ AdmittedBundles /\ RevokedStops

\* The inductive invariant holds initially.
LEMMA InvInit == Init => Inv
<1> SUFFICES ASSUME Init PROVE Inv
  OBVIOUS
<1>1. TypeOK
  BY TypeInit
<1>2. Admitted /\ Wanes
  BY SessionShape DEF Init, Admitted, Wanes
<1>3. AdmittedBundles
  BY DEF Init, AdmittedBundles, Free
<1> QED
  BY <1>1, <1>2, <1>3, BoundAssumption DEF Inv, Init, Present, RevokedStops

\* A session that is only moved or forgotten keeps its claims.
LEMMA KeptClaims ==
    ASSUME Admitted,
           \A s \in Sids : session'[s] = NoSession \/
               /\ session[s] # NoSession
               /\ session'[s].man = session[s].man /\ session'[s].cap = session[s].cap
    PROVE  Admitted'
BY DEF Admitted

\* Accepting a token: its labels have been revoked for less than its lifetime.
LEMMA AcceptedInTime ==
    ASSUME Inv, NEW s \in Sids, session[s].life > 0, NoteUse(s)
    PROVE  late' < UploadTTL
<1>1. TypeOK /\ session[s] \in Session
  BY LiveSession DEF Inv
<1>2. late' \in Lateness(s) /\ Lateness(s) \subseteq Nat
  BY <1>1, Noted
<1>3. late < UploadTTL
  BY DEF Inv, RevokedStops
<1>4. \A a \in {session[s].from, session[s].to} \cap Agents : gone[a] < UploadTTL
  <2>1. \A a \in Agents : gone[a] \in Nat
    BY <1>1, BoundAssumption DEF TypeOK
  <2>2. session[s].life \in Nat
    BY <1>1, SessionShape, BoundAssumption
  <2> QED
    BY <2>1, <2>2, BoundAssumption DEF Inv, Wanes
<1> QED
  BY <1>2, <1>3, <1>4 DEF Lateness

\* Every step keeps the inductive invariant.
LEMMA InvStep ==
    ASSUME Inv, [Next]_vars
    PROVE  Inv'
<1> USE DEF Inv
<1>0. TypeOK'
  BY TypeStep
<1>c. UploadTTL \in Nat /\ UploadTTL > 0 /\ \A a \in Agents : gone[a] \in 0..UploadTTL
  BY BoundAssumption DEF TypeOK
<1>l. \A s \in Sids : session[s].life \in 0..UploadTTL
  BY SessionShape, <1>c DEF TypeOK
<1>1. ASSUME NEW a \in Agents, Revoke(a) PROVE Inv'
  BY <1>1, <1>0 DEF Revoke, Admitted, Present, Wanes, AdmittedBundles, RevokedStops
<1>2. ASSUME NEW a \in Agents, CreateKey(a) PROVE Inv'
  <2>1. gone' = [gone EXCEPT ![a] = 0] /\ active' = active \cup {a} /\ session' = session
    BY <1>2 DEF CreateKey
  <2>2. Present'
    BY <2>1 DEF Present, TypeOK
  <2>3. \A b \in Agents : gone'[b] \in Nat /\ gone'[b] <= gone[b]
    BY <2>1, <1>c DEF TypeOK
  <2>4. Wanes'
    BY <2>1, <2>3, <1>c, <1>l DEF Wanes
  <2> QED
    BY <1>2, <1>0, <2>2, <2>4 DEF CreateKey, Admitted, AdmittedBundles, RevokedStops
<1>3. CASE Tick
  <2>s. \A s \in Sids : session'[s] = Aged(s)
    BY <1>3 DEF Tick
  <2>g. \A a \in Agents : gone'[a] = IF a \notin active /\ gone[a] < UploadTTL
                                     THEN gone[a] + 1 ELSE gone[a]
    BY <1>3 DEF Tick
  <2>a. ASSUME NEW s \in Sids
        PROVE  \/ Aged(s) = NoSession
               \/ Aged(s) = session[s] /\ session[s] \in Session /\ session[s].life = 0
               \/ /\ session[s] \in Session /\ session[s].life > 0
                  /\ Aged(s) = [session[s] EXCEPT !.life = @ - 1]
    BY <1>l, SessionShape DEF Aged, TypeOK
  <2>e. ASSUME NEW x \in Session
        PROVE  LET y == [x EXCEPT !.life = @ - 1] IN
               /\ y.life = x.life - 1 /\ y.man = x.man /\ y.cap = x.cap
               /\ y.from = x.from /\ y.to = x.to
    BY DEF Session
  <2>1. Admitted'
    <3>1. ASSUME NEW s \in Sids
          PROVE  session'[s] = NoSession \/
                   /\ session[s] # NoSession
                   /\ session'[s].man = session[s].man /\ session'[s].cap = session[s].cap
      <4>1. session'[s] = Aged(s)
        BY <2>s
      <4>2. CASE session[s] \in Session /\ Aged(s) = [session[s] EXCEPT !.life = @ - 1]
        BY <4>1, <4>2, <2>e, SessionShape
      <4>3. CASE session[s] \in Session /\ Aged(s) = session[s]
        BY <4>1, <4>3, SessionShape
      <4> QED BY <4>1, <4>2, <4>3, <2>a
    <3> QED BY <3>1, KeptClaims
  <2>2. Present'
    BY <1>3, <2>g DEF Tick, Present, TypeOK
  <2>3. Wanes'
    <3> SUFFICES ASSUME NEW s \in Sids, session'[s].life > 0,
                        NEW a \in {session'[s].from, session'[s].to} \cap Agents
                 PROVE  session'[s].life + gone'[a] <= UploadTTL
      BY DEF Wanes
    <3>1. /\ session[s] \in Session /\ session[s].life > 0
          /\ session'[s] = [session[s] EXCEPT !.life = @ - 1]
      BY <2>s, <2>a, SessionShape
    <3>2. /\ session'[s].life = session[s].life - 1
          /\ a \in {session[s].from, session[s].to} \cap Agents
      BY <3>1, <2>e
    <3>3. session[s].life + gone[a] <= UploadTTL
      BY <3>1, <3>2 DEF Wanes
    <3>4. gone'[a] <= gone[a] + 1 /\ gone'[a] \in Nat
      BY <2>g, <1>c
    <3> QED
      BY <3>2, <3>3, <3>4, <1>c, <1>l
  <2> QED
    BY <1>3, <1>0, <2>1, <2>2, <2>3 DEF Tick, AdmittedBundles, RevokedStops
<1>4. ASSUME NEW s \in Sids, NEW from \in Agents \cup {Operator}, NEW to \in Inboxes,
             NEW m \in Manifests, NEW inl \in BOOLEAN, SendInit(s, from, to, m, inl)
      PROVE Inv'
  <2> DEFINE x == [from |-> from, to |-> to, man |-> m, life |-> UploadTTL, cap |-> config,
                   mode |-> IF inl THEN Mode(m, config) ELSE "batch"]
  <2>1. session' = [session EXCEPT ![s] = x]
    BY <1>4 DEF SendInit
  <2>2. x.man = m /\ x.cap = config /\ x.life = UploadTTL /\ x.from = from /\ x.to = to
    OBVIOUS
  <2> HIDE DEF x
  <2>3. Admitted'
    BY <1>4, <2>1, <2>2 DEF SendInit, Admitted, TypeOK
  <2>4. \A a \in {from, to} \cap Agents : gone[a] = 0
    BY <1>4, NamesAssumption DEF SendInit, Senders, Recipients, Present
  <2>5. Wanes'
    <3>1. gone' = gone
      BY <1>4 DEF SendInit
    <3> SUFFICES ASSUME NEW t \in Sids, session'[t].life > 0,
                        NEW a \in {session'[t].from, session'[t].to} \cap Agents
                 PROVE  session'[t].life + gone'[a] <= UploadTTL
      BY DEF Wanes
    <3>2. CASE t = s
      <4>1. session'[t] = x
        BY <2>1, <3>2 DEF TypeOK
      <4> QED
        BY <4>1, <2>2, <2>4, <3>1, <1>c
    <3>3. CASE t # s
      <4>1. session'[t] = session[t]
        BY <2>1, <3>3 DEF TypeOK
      <4> QED
        BY <4>1, <3>1 DEF Wanes
    <3> QED
      BY <3>2, <3>3
  <2> QED
    BY <1>4, <1>0, <2>3, <2>5 DEF SendInit, Present, AdmittedBundles, RevokedStops
<1>5. ASSUME NEW s \in Sids, BeginUpload(s) PROVE Inv'
  <2>1. session[s].life > 0 /\ NoteUse(s)
    BY <1>5 DEF BeginUpload, Accepts
  <2>2. late' < UploadTTL
    BY <2>1, AcceptedInTime
  <2>3. AdmittedBundles'
    BY <1>5 DEF BeginUpload, AdmittedBundles, InFlight, TypeOK
  <2> QED
    BY <1>5, <1>0, <2>2, <2>3 DEF BeginUpload, Admitted, Present, Wanes, RevokedStops
<1>f. ASSUME NEW s \in Sids, Forget(s), gone' = gone PROVE Admitted' /\ Wanes'
  <2>1. \A t \in Sids : session'[t] \in {session[t], NoSession}
    BY <1>f DEF Forget, TypeOK
  <2>2. Admitted'
    BY <2>1, KeptClaims
  <2> QED
    BY <1>f, <2>1, <2>2, SessionShape DEF Wanes
<1>6. ASSUME NEW s \in Sids, AbortUpload(s) PROVE Inv'
  <2>1. AdmittedBundles'
    BY <1>6 DEF AbortUpload, AdmittedBundles, Free, TypeOK
  <2> QED
    BY <1>6, <1>0, <1>f, <2>1 DEF AbortUpload, Present, RevokedStops
<1>b. ASSUME NEW s \in Sids, NEW c \in Contents, session[s] \in Session,
             Matches(session[s].man, c),
             inbox' = [inbox EXCEPT ![session[s].to] = NewBundle(c, session[s].cap)]
      PROVE AdmittedBundles'
  <2>1. ~CapExceeded(c, session[s].cap)
    BY <1>b, SessionShape DEF Matches, Admitted
  <2>2. /\ NewBundle(c, session[s].cap).files = c
        /\ NewBundle(c, session[s].cap).cap = session[s].cap
    BY <1>b, SessionShape, NewBundleShape
  <2> QED
    BY <1>b, <2>1, <2>2 DEF AdmittedBundles, TypeOK
<1>7. ASSUME NEW s \in Sids, NEW c \in Contents, SendInline(s, c) PROVE Inv'
  <2>1. session[s].life > 0 /\ NoteUse(s)
    BY <1>7 DEF SendInline, Accepts
  <2>2. late' < UploadTTL
    BY <2>1, AcceptedInTime
  <2>3. AdmittedBundles'
    BY <1>7, <1>b, <2>1, LiveSession DEF SendInline
  <2> QED
    BY <1>7, <1>0, <2>2, <2>3 DEF SendInline, Admitted, Present, Wanes, RevokedStops
<1>8. ASSUME NEW s \in Sids, NEW c \in Contents, CommitUpload(s, c) PROVE Inv'
  <2>1. AdmittedBundles'
    BY <1>8, <1>b, LiveSession DEF CommitUpload
  <2> QED
    BY <1>8, <1>0, <1>f, <2>1 DEF CommitUpload, Present, RevokedStops
<1>9. ASSUME NEW from \in Agents \cup {Operator}, NEW c \in Contents, Broadcast(from, c)
      PROVE Inv'
  <2>1. PICK blind, seen, may, bad, kept : Outcome(from, c, blind, seen, may, bad, kept)
    BY <1>9, BroadcastOutcome
  <2>2. ~CapExceeded(c, config)
    BY <1>9 DEF Broadcast
  <2>3. NewBundle(c, config).files = c /\ NewBundle(c, config).cap = config
    BY NewBundleShape DEF TypeOK
  <2>4. \A a \in Inboxes : inbox'[a] \in {NewBundle(c, config), Free, inbox[a]}
    BY <2>1 DEF Outcome
  <2>5. AdmittedBundles'
    BY <2>2, <2>3, <2>4 DEF AdmittedBundles, Free
  <2> QED
    BY <1>9, <1>0, <2>5 DEF Broadcast, Admitted, Present, Wanes, RevokedStops
<1>10. ASSUME NEW a \in Inboxes, Take(a) \/ Reap(a) PROVE Inv'
  <2>1. AdmittedBundles'
    BY <1>10 DEF Take, Reap, AdmittedBundles, Free, TypeOK
  <2> QED
    BY <1>10, <1>0, <2>1 DEF Take, Reap, Admitted, Present, Wanes, RevokedStops
<1>11. ASSUME NEW cfg \in Configs, Restart(cfg) PROVE Inv'
  <2>1. \A t \in Sids : session'[t] \in {session[t], NoSession}
    BY <1>11 DEF Restart
  <2>2. Admitted'
    BY <2>1, KeptClaims
  <2>3. Wanes'
    BY <1>11, <2>1, SessionShape DEF Restart, Wanes
  <2> QED
    BY <1>11, <1>0, <2>2, <2>3 DEF Restart, Present, AdmittedBundles, RevokedStops
<1>12. CASE UNCHANGED vars
  BY <1>12, <1>0 DEF vars, Admitted, Present, Wanes, AdmittedBundles, RevokedStops
<1> QED
  BY <1>1, <1>2, <1>3, <1>4, <1>5, <1>6, <1>7, <1>8, <1>9, <1>10, <1>11, <1>12 DEF Next

\* The inductive invariant holds in every reachable state.
LEMMA Invariance == Spec => []Inv
BY InvInit, InvStep, PTL DEF Spec

\* No token that names a revoked label is accepted once upload_token_ttl has passed
\* since the revocation, whatever was signed, re-issued or restarted in between.
THEOREM RevocationTakesEffect == Spec => []RevokedStops
<1>1. Inv => RevokedStops
  BY DEF Inv
<1> QED
  BY <1>1, Invariance, PTL

-----------------------------------------------------------------------------
(* Limits.  First the sum of the declared sizes: what SumFunction computes is a number. *)

\* The element the fold takes next.
Pick(s) == CHOOSE x \in s : TRUE

\* One unfolding of the sum over a subset s, the rest given by g.
SumStep(m, g, s) == IF s = {} THEN 0 ELSE m[Pick(s)] + g[s \ {Pick(s)}]

\* The library's sum is the fold that takes the elements one by one.
LEMMA SumUnfolded ==
    ASSUME NEW m
    PROVE  SumFunction(m) =
             (CHOOSE f : f = [s \in SUBSET DOMAIN m |-> SumStep(m, f, s)])[DOMAIN m]
BY DEF SumFunction, SumFunctionOnSet, FoldFunctionOnSet, MapThenFoldSet, SumStep, Pick

\* Without the element taken, one is left to take less.
LEMMA PickLess ==
    ASSUME NEW D, IsFiniteSet(D), NEW s \in SUBSET D, s # {}
    PROVE  /\ Pick(s) \in s /\ s \ {Pick(s)} \in SUBSET D
           /\ Cardinality(s) \in Nat /\ Cardinality(s \ {Pick(s)}) \in Nat
           /\ Cardinality(s \ {Pick(s)}) = Cardinality(s) - 1
<1>1. Pick(s) \in s
  BY DEF Pick
<1>2. IsFiniteSet(s)
  BY FS_Subset
<1> QED
  BY <1>1, <1>2, FS_RemoveElement, FS_CardinalityType

\* The recursion of the fold has a solution over a finite domain: a solution for
\* the subsets of up to k elements gives one for those of k + 1.
LEMMA SumExists ==
    ASSUME NEW m, IsFiniteSet(DOMAIN m), m \in [DOMAIN m -> Int]
    PROVE  \E g : g = [s \in SUBSET DOMAIN m |-> SumStep(m, g, s)]
<1> DEFINE D == DOMAIN m
           Upto(g, k) == \A s \in SUBSET D : Cardinality(s) <= k => g[s] = SumStep(m, g, s)
           Bad == {k \in Nat : ~ \E g \in [SUBSET D -> Int] : Upto(g, k)}
<1>0. \A s \in SUBSET D : IsFiniteSet(s) /\ Cardinality(s) \in Nat
  BY FS_Subset, FS_CardinalityType
<1>1. 0 \notin Bad
  <2> DEFINE g == [s \in SUBSET D |-> 0]
  <2>1. g \in [SUBSET D -> Int]
    OBVIOUS
  <2>2. ASSUME NEW s \in SUBSET D, Cardinality(s) <= 0 PROVE s = {}
    BY <1>0, <2>2, FS_EmptySet
  <2>3. Upto(g, 0)
    BY <2>2 DEF SumStep
  <2> QED
    BY <2>1, <2>3
<1>2. ASSUME NEW k \in Nat, k \notin Bad
      PROVE  k + 1 \notin Bad
  <2>1. PICK g \in [SUBSET D -> Int] : Upto(g, k)
    BY <1>2
  <2> DEFINE h == [s \in SUBSET D |-> SumStep(m, g, s)]
  <2>2. h \in [SUBSET D -> Int]
    <3> SUFFICES ASSUME NEW s \in SUBSET D PROVE SumStep(m, g, s) \in Int
      OBVIOUS
    <3>1. CASE s = {}
      BY <3>1 DEF SumStep
    <3>2. CASE s # {}
      <4>1. Pick(s) \in D /\ s \ {Pick(s)} \in SUBSET D
        BY <3>2, PickLess
      <4>2. m[Pick(s)] \in Int /\ g[s \ {Pick(s)}] \in Int
        BY <4>1
      <4> QED
        BY <3>2, <4>2 DEF SumStep
    <3> QED
      BY <3>1, <3>2
  <2>3. ASSUME NEW s \in SUBSET D, Cardinality(s) <= k + 1
        PROVE  h[s] = SumStep(m, h, s)
    <3>1. CASE s = {}
      BY <3>1 DEF SumStep
    <3>2. CASE s # {}
      <4> DEFINE t == s \ {Pick(s)}
      <4>1. t \in SUBSET D /\ Cardinality(t) <= k
        BY <2>3, <3>2, PickLess
      <4>2. h[t] = g[t]
        BY <4>1, <2>1
      <4> QED
        BY <3>2, <4>2 DEF SumStep
    <3> QED
      BY <3>1, <3>2
  <2>4. Upto(h, k + 1)
    BY <2>3
  <2> HIDE DEF h, Upto
  <2> QED
    BY <2>2, <2>4
<1>3. Bad = {}
  <2> SUFFICES ASSUME Bad # {} PROVE FALSE
    OBVIOUS
  <2>1. PICK n \in Bad : \A k \in Bad : n <= k
    <3>1. Bad \in SUBSET Nat
      OBVIOUS
    <3> HIDE DEF Bad
    <3> QED
      BY <3>1, LeastNat
  <2>2. n \in Nat
    OBVIOUS
  <2> HIDE DEF Bad
  <2>3. n - 1 \in Nat /\ n - 1 \notin Bad
    BY <2>1, <2>2, <1>1
  <2> QED
    BY <2>1, <2>2, <2>3, <1>2
<1>4. PICK g \in [SUBSET D -> Int] : Upto(g, Cardinality(D))
  BY <1>0, <1>3
<1>5. \A s \in SUBSET D : Cardinality(s) <= Cardinality(D)
  BY FS_Subset
<1>6. g = [s \in SUBSET D |-> SumStep(m, g, s)]
  BY <1>4, <1>5
<1> QED
  BY <1>6

\* The sum over a finite set of numbers is a number: a smallest subset whose sum
\* is not one would lose an element and still not be one.
LEMMA SumIsInt ==
    ASSUME NEW m, IsFiniteSet(DOMAIN m), m \in [DOMAIN m -> Int]
    PROVE  SumFunction(m) \in Int
<1> DEFINE D == DOMAIN m
           f == CHOOSE g : g = [s \in SUBSET D |-> SumStep(m, g, s)]
           Bad == {k \in Nat : \E s \in SUBSET D : Cardinality(s) = k /\ f[s] \notin Int}
<1>1. f = [s \in SUBSET D |-> SumStep(m, f, s)]
  BY SumExists
<1>2. SumFunction(m) = f[D]
  BY SumUnfolded
<1> HIDE DEF f
<1>3. Bad = {}
  <2> SUFFICES ASSUME Bad # {} PROVE FALSE
    OBVIOUS
  <2>1. PICK n \in Bad : \A k \in Bad : n <= k
    <3>1. Bad \in SUBSET Nat
      OBVIOUS
    <3> HIDE DEF Bad
    <3> QED
      BY <3>1, LeastNat
  <2>2. PICK s \in SUBSET D : Cardinality(s) = n /\ f[s] \notin Int
    OBVIOUS
  <2>3. f[s] = SumStep(m, f, s)
    BY <1>1
  <2>4. s # {}
    BY <2>2, <2>3 DEF SumStep
  <2>5. /\ Pick(s) \in s /\ s \ {Pick(s)} \in SUBSET D /\ n \in Nat
        /\ Cardinality(s \ {Pick(s)}) = n - 1 /\ n - 1 \in Nat
    <3>1. Cardinality(s) \in Nat /\ Cardinality(s \ {Pick(s)}) = Cardinality(s) - 1
      BY <2>4, PickLess
    <3>2. Pick(s) \in s /\ s \ {Pick(s)} \in SUBSET D /\ Cardinality(s \ {Pick(s)}) \in Nat
      BY <2>4, PickLess
    <3> QED
      BY <2>2, <3>1, <3>2
  <2>6. f[s \ {Pick(s)}] \notin Int
    BY <2>2, <2>3, <2>4, <2>5 DEF SumStep
  <2>7. n - 1 \in Bad
    BY <2>5, <2>6
  <2> QED
    BY <2>1, <2>5, <2>7
<1>4. Cardinality(D) \in Nat
  BY FS_CardinalityType
<1> QED
  BY <1>2, <1>3, <1>4

\* What passed the check of its declaration is within the limits.
LEMMA WithinCapsHolds == Inv => WithinCaps
<1> SUFFICES ASSUME Inv, NEW a \in Inboxes, inbox[a].kind = "bundle"
             PROVE  LET c == inbox[a].files
                        cap == inbox[a].cap
                    IN /\ cap.count # NoCap => Cardinality(DOMAIN c) <= cap.count
                       /\ cap.file # NoCap => \A n \in DOMAIN c : c[n] \in 0..cap.file
                       /\ cap.total # NoCap => Total(c) <= cap.total
  BY DEF WithinCaps
<1> DEFINE c == inbox[a].files
           cap == inbox[a].cap
<1>1. c \in Contents /\ cap \in Configs /\ ~CapExceeded(c, cap)
  <2>1. inbox[a] \in Bundle
    BY DEF Inv, TypeOK, Free, InFlight
  <2> QED
    BY <2>1 DEF Bundle, Inv, AdmittedBundles
<1> HIDE DEF c, cap
<1>2. /\ IsFiniteSet(DOMAIN c) /\ Total(c) \in Int
      /\ \A n \in DOMAIN c : c[n] \in Int /\ c[n] >= 0
  BY <1>1, ManifestAssumption, SumIsInt DEF Contents, Total
<1>3. Cardinality(DOMAIN c) \in Nat
  BY <1>2, FS_CardinalityType
<1>4. {cap.count, cap.file, cap.total} \subseteq Nat \cup {NoCap}
  BY <1>1, ConfigAssumption DEF Config
<1>5. cap.count # NoCap => Cardinality(DOMAIN c) <= cap.count
  BY <1>1, <1>3, <1>4 DEF CapExceeded, Over
<1>6. cap.file # NoCap => \A n \in DOMAIN c : c[n] \in 0..cap.file
  BY <1>1, <1>2, <1>4 DEF CapExceeded, Over
<1>7. cap.total # NoCap => Total(c) <= cap.total
  BY <1>1, <1>2, <1>4 DEF CapExceeded, Over
<1> QED
  BY <1>5, <1>6, <1>7 DEF c, cap

\* Every bundle in an inbox is within the limits it was admitted under.
THEOREM BundlesWithinCaps == Spec => []WithinCaps
BY Invariance, WithinCapsHolds, PTL

\* For any limits and any finite manifest, what prepare_send_init accepted can be
\* completed by the second phase, outside the cases that Hopeless names.
THEOREM AcceptedSendsComplete == Spec => []AcceptedDeliverable
<1>1. Inv => AcceptedDeliverable
  <2> SUFFICES ASSUME Inv, NEW s \in Sids, session[s].life > 0,
                      session[s].cap = config, ~Hopeless(s)
               PROVE  LET m == session[s].man IN
                      /\ m \in Contents /\ Storable(m)
                      /\ session[s].mode = "batch" => \A n \in DOMAIN m : m[n] <= Ceiling
    BY DEF AcceptedDeliverable
  <2> DEFINE m == session[s].man
  <2>1. m \in Manifests /\ config \in Configs
    BY LiveSession, SessionShape DEF Inv, TypeOK
  <2>2. ValidNames(DOMAIN m) /\ ~CapExceeded(m, config)
    BY SessionShape DEF Inv, Admitted
  <2>3. /\ DOMAIN m # {} /\ ~(Collide(DOMAIN m) /\ Intervenes(DOMAIN m))
        /\ \A n \in DOMAIN m : ~(m[n] < 0)
        /\ session[s].mode = "batch" /\ config.file = NoCap =>
             \A n \in DOMAIN m : ~(m[n] > DefaultFileMax)
    BY DEF Hopeless
  <2> HIDE DEF m
  <2>4. /\ DOMAIN m \subseteq Name /\ IsFiniteSet(DOMAIN m)
        /\ \A n \in DOMAIN m : m[n] \in Int
    BY <2>1, ManifestAssumption DEF Name
  <2>5. m \in Contents
    BY <2>1, <2>3, <2>4 DEF Contents
  <2>6. Storable(m)
    BY <2>2, <2>3, <2>4, NeighboursSuffice DEF Storable
  <2>7. config.file \in Nat \cup {NoCap} /\ DefaultFileMax \in Nat
    BY <2>1, ConfigAssumption, BoundAssumption DEF Config
  <2>8. session[s].mode = "batch" => \A n \in DOMAIN m : m[n] <= Ceiling
    BY <2>2, <2>3, <2>4, <2>7 DEF Ceiling, CapExceeded, Over
  <2> QED
    BY <2>5, <2>6, <2>8 DEF m
<1> QED
  BY <1>1, Invariance, PTL

-----------------------------------------------------------------------------
(* Broadcast *)

\* The answer of every broadcast says what has become of each inbox.
THEOREM BroadcastsTruthful == Spec => BroadcastTruthful
<1> DEFINE Says == LET r == report' IN
         /\ \A a \in r.delivered : inbox'[a].kind = "bundle" /\ inbox'[a].files = r.files
         /\ \A a \in r.failed : inbox'[a] \in {Free, inbox[a]}
         /\ \A a \in Inboxes \ (r.delivered \cup r.failed) : inbox'[a] = inbox[a]
         /\ r.seen = r.delivered \cup r.denied \cup r.failed
         /\ r.delivered \cap r.failed = {} /\ r.denied \cap (r.delivered \cup r.failed) = {}
         /\ r.result = "success" <=> r.delivered # {} /\ r.denied \cup r.failed = {}
         /\ r.result = "partial" <=> r.delivered # {} /\ r.denied \cup r.failed # {}
<1>1. ASSUME TypeOK, NEW from \in Agents \cup {Operator}, NEW c \in Contents, Broadcast(from, c)
      PROVE  Says
  <2>1. PICK blind, seen, may, bad, kept : Outcome(from, c, blind, seen, may, bad, kept)
    BY <1>1, BroadcastOutcome
  <2>2. seen \subseteq Agents /\ may \subseteq seen /\ bad \subseteq may /\ (blind => seen = {})
    BY <1>1, <2>1 DEF Outcome, TypeOK
  <2>3. \A a \in Inboxes : inbox'[a] = IF a \in may \ bad THEN NewBundle(c, config)
                                      ELSE IF a \in bad \ kept THEN Free ELSE inbox[a]
    BY <2>1 DEF Outcome
  <2>4. /\ report'.files = c /\ report'.seen = seen /\ report'.delivered = may \ bad
        /\ report'.denied = seen \ may /\ report'.failed = bad
        /\ report'.result = Result(seen, may \ bad, blind)
    BY <2>1 DEF Outcome
  <2>5. NewBundle(c, config).kind = "bundle" /\ NewBundle(c, config).files = c
    BY <1>1, NewBundleShape DEF TypeOK
  <2>6. Agents \subseteq Inboxes
    BY DEF Inboxes
  <2>7. /\ \A a \in may \ bad : inbox'[a].kind = "bundle" /\ inbox'[a].files = c
        /\ \A a \in bad : inbox'[a] \in {Free, inbox[a]}
        /\ \A a \in Inboxes \ ((may \ bad) \cup bad) : inbox'[a] = inbox[a]
    BY <2>2, <2>3, <2>5, <2>6
  <2>8. /\ Result(seen, may \ bad, blind) = "success" <=>
              may \ bad # {} /\ (seen \ may) \cup bad = {}
        /\ Result(seen, may \ bad, blind) = "partial" <=>
              may \ bad # {} /\ (seen \ may) \cup bad # {}
    BY <2>2 DEF Result
  <2> QED
    BY <2>2, <2>4, <2>7, <2>8
<1>2. ASSUME Next PROVE report' = NoReport \/
                         \E from \in Agents \cup {Operator}, c \in Contents : Broadcast(from, c)
  BY <1>2 DEF Next, Revoke, CreateKey, Tick, SendInit, SendInline, BeginUpload, CommitUpload,
              AbortUpload, Take, Reap, Restart, NoAnswer
<1>3. TypeOK /\ [Next]_vars => [report' # NoReport => Says]_vars
  BY <1>1, <1>2
<1> QED
  BY <1>3, TypeCorrect, PTL DEF Spec, BroadcastTruthful
=============================================================================
