---------------------------- MODULE JwtRotation -----------------------------
(***************************************************************************)
(* The signing key of upload and download tokens: the two verification     *)
(* slots of JWTKeySlots, their rotation by SIGHUP or by a restart, and the *)
(* tokens that are out while it happens.                                   *)
(*                                                                         *)
(* A rotation runs without suspending inside its lock, so it is one action.*)
(* Verification reads the slots; every signer reads the configuration the  *)
(* process was started with.                                               *)
(***************************************************************************)
EXTENDS Naturals, FiniteSets

CONSTANTS
    Keys,         \* valid HS256 keys
    NoKey,        \* no secondary; also: unreadable or invalid key material
    Never,        \* no rotation since the start of the process
    TokenTTL,     \* upload_token_ttl or download_claim_ttl, in ticks
    OverlapTTL,   \* jwt_key_overlap_ttl, in ticks
    MaxTokens     \* bound on the number of unexpired tokens

ASSUME KeyAssumption == NoKey \notin Keys /\ Never \notin Nat
ASSUME TTLAssumption == TokenTTL \in Nat \ {0} /\ OverlapTTL \in Nat \ {0}
ASSUME BoundAssumption == MaxTokens \in Nat

VARIABLES
    file,       \* what CASSETTA_JWT_KEY_FILE holds
    second,     \* the CASSETTA_JWT_KEY_SECONDARY the next start will read
    boot,       \* config.jwt_primary_key
    primary,    \* slots.primary
    secondary,  \* slots.secondary
    since,      \* time since slots.last_rotation_ts, or Never
    tokens      \* unexpired tokens

vars == <<file, second, boot, primary, secondary, since, tokens>>

\* History: `current`, the token was signed with the primary key of its time;
\* `hops`, changes of the primary key since (2 stands for more); `dropped`, the
\* last restart since found the token's key nowhere in the configuration.
Token == [key: Keys, left: 1..TokenTTL, current: BOOLEAN, hops: 0..2,
          dropped: BOOLEAN]

Init == /\ file \in Keys /\ boot = file /\ primary = file
        /\ second \in Keys \cup {NoKey} /\ secondary = second
        /\ since = Never
        /\ tokens = {}

\* The operator replaces the key file, or leaves something unusable there.
WriteKeyFile(k) == /\ k # file
                   /\ file' = k
                   /\ UNCHANGED <<second, boot, primary, secondary, since, tokens>>

\* The operator sets or unsets the secondary of the next start.
ConfigureSecondary(k) ==
    /\ k # second
    /\ second' = k
    /\ UNCHANGED <<file, boot, primary, secondary, since, tokens>>

Hop(t) == [t EXCEPT !.hops = IF @ < 2 THEN @ + 1 ELSE 2]

\* Faulty variants of Rotate: unchecked key material; the primary is replaced
\* before it is saved.
RotateUnchecked == /\ file # primary
                   /\ primary' = file
                   /\ secondary' = primary
                   /\ since' = 0
                   /\ tokens' = {Hop(t) : t \in tokens}
                   /\ UNCHANGED <<file, second, boot>>
RotateSwapped == /\ file \in Keys /\ file # primary
                 /\ primary' = file
                 /\ secondary' = file
                 /\ since' = 0
                 /\ tokens' = {Hop(t) : t \in tokens}
                 /\ UNCHANGED <<file, second, boot>>

\* SIGHUP.  Bad key material and the key already in use change nothing.
Rotate == /\ file \in Keys /\ file # primary
          /\ primary' = file
          /\ secondary' = primary
          /\ since' = 0
          /\ tokens' = {Hop(t) : t \in tokens}
          /\ UNCHANGED <<file, second, boot>>

\* A start after a shutdown or a crash, with whatever is configured by then:
\* both slots come from the configuration, nothing of the last rotation stays.
\* An unusable key file keeps the server from starting.
Restart ==
    /\ file \in Keys
    /\ boot' = file /\ primary' = file
    /\ secondary' = second
    /\ since' = Never
    /\ tokens' = {[(IF file = primary THEN t ELSE Hop(t))
                      EXCEPT !.dropped = t.key \notin {file, second}] : t \in tokens}
    /\ UNCHANGED <<file, second>>

\* Every sign() call passes config.jwt_primary_key.
Issue ==
    /\ Cardinality(tokens) < MaxTokens
    /\ tokens' = tokens \cup {[key |-> boot, left |-> TokenTTL,
                               current |-> boot = primary, hops |-> 0,
                               dropped |-> FALSE]}
    /\ UNCHANGED <<file, second, boot, primary, secondary, since>>

OverlapOver == since # Never /\ since >= OverlapTTL

\* _resolve_secondary, and verify with its result.
Secondary == IF OverlapOver THEN NoKey ELSE secondary
Accepts(k) == k = primary \/ k = Secondary

\* Any verification after the overlap drops the secondary for good.
DropSecondary == /\ OverlapOver /\ secondary # NoKey
                 /\ secondary' = NoKey
                 /\ UNCHANGED <<file, second, boot, primary, since, tokens>>

Tick == /\ tokens' = {[t EXCEPT !.left = @ - 1] : t \in {x \in tokens : x.left > 1}}
        /\ since' = IF since = Never \/ since >= OverlapTTL THEN since ELSE since + 1
        /\ UNCHANGED <<file, second, boot, primary, secondary>>

Next == \/ \E k \in Keys \cup {NoKey} : WriteKeyFile(k) \/ ConfigureSecondary(k)
        \/ Rotate \/ Restart \/ Issue \/ DropSecondary \/ Tick

Spec == Init /\ [][Next]_vars

-----------------------------------------------------------------------------
(* Properties *)

\* The slots hold keys, never unusable material; tokens in the table are alive.
TypeOK == /\ {file, second} \subseteq Keys \cup {NoKey}
          /\ boot \in Keys /\ primary \in Keys
          /\ secondary \in Keys \cup {NoKey}
          /\ since \in (0..OverlapTTL) \cup {Never}
          /\ tokens \subseteq Token

\* A credential signed with the primary key of its time outlives one change of
\* that key, by SIGHUP or restart, at every moment until it expires, provided
\* the overlap is as long as CONFIG.md asks for (_handle_rotation,
\* _resolve_secondary) and the last restart, planned or not, found its key in
\* the configuration (init_jwt_key_slots keeps nothing of an earlier rotation).
SurvivesRotation ==
    OverlapTTL >= TokenTTL =>
        \A t \in tokens : t.current /\ t.hops <= 1 /\ ~t.dropped => Accepts(t.key)

\* A token whose key no restart dropped is accepted at least until the primary
\* key changes.
FreshAccepted == \A t \in tokens : t.hops = 0 /\ ~t.dropped => Accepts(t.key)
=============================================================================
