--------------------------- MODULE KeyStoreProofs ---------------------------
(***************************************************************************)
(* FileKeyStore for any labels and any number of keys, with every outcome  *)
(* of every save.                                                          *)
(***************************************************************************)
EXTENDS KeyStore, TLAPS

\* What a new key changes in a store.
LEMMA WithFacts ==
    ASSUME NEW m \in Store, NEW l \in Labels, NEW k \in Keys
    PROVE  /\ With(m, l, k) \in Store
           /\ With(m, l, k).setup = m.setup
           /\ With(m, l, k).active = m.active \cup {k}
           /\ \A j \in Keys : With(m, l, k).label[j] = IF j = k THEN l ELSE m.label[j]
BY DEF With, Store

\* What a revocation changes in a store.
LEMMA WithoutFacts ==
    ASSUME NEW m \in Store, NEW k \in Keys
    PROVE  /\ Without(m, k) \in Store
           /\ Without(m, k).setup = m.setup
           /\ Without(m, k).active = m.active \ {k}
           /\ Without(m, k).label = m.label
BY DEF Store, Without

\* Setting the setup flag changes nothing else.
LEMMA FlagFacts ==
    ASSUME NEW m \in Store
    PROVE  /\ [m EXCEPT !.setup = TRUE] \in Store
           /\ [m EXCEPT !.setup = TRUE].setup = TRUE
           /\ [m EXCEPT !.setup = TRUE].active = m.active
           /\ [m EXCEPT !.setup = TRUE].label = m.label
BY DEF Store

-----------------------------------------------------------------------------

\* Every operation, whatever becomes of its save, keeps the shape of the store.
LEMMA TypeKept == ASSUME TypeOK, [Next]_vars PROVE TypeOK'
<1> USE DEF TypeOK
<1>1. ASSUME NEW l \in Labels, NEW k \in Keys, NEW o \in Outcomes, Create(l, k, o)
      PROVE  TypeOK'
  BY <1>1, WithFacts DEF Create, Persist
<1>2. ASSUME NEW l \in Labels, NEW k \in Keys, NEW o \in Outcomes, Setup(l, k, o)
      PROVE  TypeOK'
  BY <1>2, WithFacts, FlagFacts DEF Setup, Persist
<1>3. ASSUME NEW l \in Labels, NEW k \in Keys, NEW o \in Outcomes, Rotate(l, k, o)
      PROVE  TypeOK'
  <2>1. PICK j \in Active(mem, l) : Rotate(l, k, o)!(j)
    BY <1>3 DEF Rotate
  <2>2. j \in Keys
    BY DEF Active, Store
  <2> QED
    BY <2>1, <2>2, WithFacts, WithoutFacts DEF Persist, Rotated
<1>4. ASSUME NEW l \in Labels, NEW o \in Outcomes, Revoke(l, o)
      PROVE  TypeOK'
  <2>1. PICK j \in Active(mem, l) : Revoke(l, o)!(j)
    BY <1>4 DEF Revoke
  <2>2. j \in Keys
    BY DEF Active, Store
  <2> QED
    BY <2>1, <2>2, WithoutFacts DEF Persist
<1>5. ASSUME NEW l \in Labels, SetupRefused(l)
      PROVE  TypeOK'
  BY <1>5, FlagFacts DEF SetupRefused
<1>6. CASE Stop
  BY <1>6 DEF Stop
<1>7. CASE Start
  BY <1>7 DEF Start
<1>8. CASE UNCHANGED vars
  BY <1>8 DEF vars
<1> QED
  BY <1>1, <1>2, <1>3, <1>4, <1>5, <1>6, <1>7, <1>8 DEF Next

\* The memory and the file are always key stores.
THEOREM TypeCorrect == Spec => []TypeOK
<1>1. Init => TypeOK
  <2> SUFFICES ASSUME Init PROVE TypeOK
    OBVIOUS
  <2>1. NoKeys \in Store
    BY DEF NoKeys, Store
  <2>2. up \in BOOLEAN
    BY Zenon DEF Init
  <2> QED
    BY <2>1, <2>2 DEF Init, TypeOK
<1>2. TypeOK /\ [Next]_vars => TypeOK'
  BY TypeKept
<1> QED
  BY <1>1, <1>2, PTL DEF Spec

-----------------------------------------------------------------------------
(* What memory and file have in common, although they differ after a failed  *)
(* save: both have one key per label, neither has a key that is confirmed    *)
(* gone, both have every key in use, and both know of the setup.  The file   *)
(* keeps this because the history only moves when it is rewritten.           *)

Sound(m, i, a, g, s) ==
    /\ OneKeyEach(m)
    /\ \A k \in m.active : m.label[k] # None
    /\ g \cap m.active = {}
    /\ i \ a \subseteq m.active
    /\ s # 0 => m.setup

StoreInv == /\ gone \subseteq asked
            /\ setups \in {0, 1}
            /\ up => Sound(mem, issued, asked, gone, setups)
            /\ disk # Torn => Sound(disk, issued, asked, gone, setups)

\* A request to revoke only takes obligations away.
LEMMA SoundAsked ==
    ASSUME NEW m, NEW i, NEW a, NEW b, NEW g, NEW s, Sound(m, i, a, g, s), a \subseteq b
    PROVE  Sound(m, i, b, g, s)
BY DEF Sound

\* A store stays sound when it gets a new key under a free label.
LEMMA SoundWith ==
    ASSUME NEW m \in Store, NEW l \in Labels, NEW k \in Keys,
           NEW i, NEW a, NEW g, NEW s, Sound(m, i, a, g, s),
           Active(m, l) = {}, k \notin g
    PROVE  /\ Sound(With(m, l, k), i, a, g, s)
           /\ Sound(With(m, l, k), i \cup {k}, a, g, s)
<1>1. /\ With(m, l, k).setup = m.setup
      /\ With(m, l, k).active = m.active \cup {k}
      /\ \A j \in Keys : With(m, l, k).label[j] = IF j = k THEN l ELSE m.label[j]
  BY WithFacts
<1>2. m.active \subseteq Keys
  BY DEF Store
<1>3. OneKeyEach(With(m, l, k))
  BY <1>1, <1>2 DEF OneKeyEach, Sound, Active
<1>4. \A j \in With(m, l, k).active : With(m, l, k).label[j] # None
  BY <1>1, <1>2, KeyStoreAssumption DEF Sound
<1> QED
  BY <1>1, <1>3, <1>4 DEF Sound

\* A store stays sound without the only key of a label, and the label is free.
LEMMA SoundWithout ==
    ASSUME NEW m \in Store, NEW l \in Labels, NEW k \in Active(m, l),
           NEW i, NEW a, NEW g, NEW s, Sound(m, i, a, g, s)
    PROVE  LET w == Without(m, k)
           IN /\ Sound(w, i, a \cup {k}, g, s)
              /\ Sound(w, i, a \cup {k}, g \cup {k}, s)
              /\ Active(w, l) = {}
              /\ w \in Store
<1> DEFINE w == Without(m, k)
<1>1. k \in Keys /\ k \in m.active /\ m.label[k] = l
  BY DEF Active, Store
<1>2. w \in Store /\ w.setup = m.setup /\ w.active = m.active \ {k} /\ w.label = m.label
  BY <1>1, WithoutFacts
<1> HIDE DEF w
<1>3. Active(w, l) = {}
  BY <1>1, <1>2 DEF Active, Sound, OneKeyEach
<1>4. OneKeyEach(w)
  BY <1>2 DEF Sound, OneKeyEach
<1>5. Sound(w, i, a \cup {k}, g, s) /\ Sound(w, i, a \cup {k}, g \cup {k}, s)
  BY <1>2, <1>4 DEF Sound
<1> QED
  BY <1>2, <1>3, <1>5 DEF w

\* Every operation keeps memory and file sound, each for itself.
LEMMA StoreInvKept == ASSUME TypeOK, StoreInv, [Next]_vars PROVE StoreInv'
<1> USE DEF TypeOK
<1>1. ASSUME NEW l \in Labels, NEW k \in Keys, NEW o \in Outcomes, Create(l, k, o)
      PROVE  StoreInv'
  <2> DEFINE m == With(mem, l, k)
  <2>1. Sound(m, issued, asked, gone, setups) /\ Sound(m, issued \cup {k}, asked, gone, setups)
    BY <1>1, SoundWith DEF Create, StoreInv, Unused
  <2> HIDE DEF m
  <2>2. /\ mem' = m /\ up' = up
        /\ asked' = asked /\ gone' = gone /\ setups' = setups
        /\ o = "saved" => disk' = m /\ issued' = issued \cup {k}
        /\ o # "saved" => disk' \in {disk, Torn} /\ issued' = issued
    BY <1>1 DEF Create, Persist, m
  <2> QED
    BY <2>1, <2>2 DEF StoreInv
<1>2. ASSUME NEW l \in Labels, NEW k \in Keys, NEW o \in Outcomes, Setup(l, k, o)
      PROVE  StoreInv'
  <2> DEFINE c == With(mem, l, k)
             m == [c EXCEPT !.setup = TRUE]
  <2>1. Sound(c, issued, asked, gone, setups) /\ Sound(c, issued \cup {k}, asked, gone, setups)
    BY <1>2, SoundWith DEF Setup, StoreInv, Unused
  <2>2. c \in Store
    BY WithFacts
  <2>3. m.setup /\ m.active = c.active /\ m.label = c.label
    BY <2>2, FlagFacts, Zenon
  <2>4. setups = 0
    BY <1>2 DEF Setup, StoreInv, Sound
  <2>5. /\ mem' = m /\ up' = up
        /\ asked' = asked /\ gone' = gone
        /\ o = "saved" => disk' = m /\ issued' = issued \cup {k} /\ setups' = setups + 1
        /\ o # "saved" => disk' \in {disk, Torn} /\ issued' = issued /\ setups' = setups
    BY <1>2 DEF Setup, Persist
  <2> HIDE DEF c, m
  <2>6. \A s \in {0, 1} : /\ Sound(m, issued, asked, gone, s)
                          /\ Sound(m, issued \cup {k}, asked, gone, s)
    BY <2>1, <2>3 DEF Sound, OneKeyEach
  <2> QED
    BY <2>4, <2>5, <2>6 DEF StoreInv
<1>3. ASSUME NEW l \in Labels, NEW k \in Keys, NEW o \in Outcomes, Rotate(l, k, o)
      PROVE  StoreInv'
  <2>1. PICK j \in Active(mem, l) : Rotate(l, k, o)!(j)
    BY <1>3 DEF Rotate
  <2> DEFINE w == Without(mem, j)
             m == With(w, l, k)
  <2>2. Sound(mem, issued, asked, gone, setups)
    BY <2>1 DEF StoreInv
  <2>3. /\ Sound(w, issued, asked \cup {j}, gone, setups)
        /\ Sound(w, issued, asked \cup {j}, gone \cup {j}, setups)
        /\ Active(w, l) = {} /\ w \in Store
    BY <2>2, SoundWithout
  <2>4. k \notin gone \cup {j}
    BY <2>1, KeyStoreAssumption DEF Unused, Active, StoreInv
  <2>5. /\ mem' = m /\ up' = up
        /\ asked' = asked \cup {j} /\ setups' = setups
        /\ o = "saved" => disk' = m /\ issued' = issued \cup {k} /\ gone' = gone \cup {j}
        /\ o # "saved" => disk' \in {disk, Torn} /\ issued' = issued /\ gone' = gone
    BY <2>1 DEF Persist, Rotated
  <2> HIDE DEF w
  <2>6. /\ Sound(m, issued, asked \cup {j}, gone, setups)
        /\ Sound(m, issued \cup {k}, asked \cup {j}, gone \cup {j}, setups)
    BY <2>3, <2>4, SoundWith
  <2> HIDE DEF m
  <2>7. disk # Torn => Sound(disk, issued, asked \cup {j}, gone, setups)
    BY SoundAsked DEF StoreInv
  <2> QED
    BY <2>5, <2>6, <2>7 DEF StoreInv
<1>4. ASSUME NEW l \in Labels, NEW o \in Outcomes, Revoke(l, o)
      PROVE  StoreInv'
  <2>1. PICK j \in Active(mem, l) : Revoke(l, o)!(j)
    BY <1>4 DEF Revoke
  <2> DEFINE w == Without(mem, j)
  <2>2. Sound(mem, issued, asked, gone, setups)
    BY <2>1 DEF StoreInv
  <2>3. /\ Sound(w, issued, asked \cup {j}, gone, setups)
        /\ Sound(w, issued, asked \cup {j}, gone \cup {j}, setups)
    BY <2>2, SoundWithout
  <2>4. /\ mem' = w /\ up' = up
        /\ asked' = asked \cup {j} /\ setups' = setups /\ issued' = issued
        /\ o = "saved" => disk' = w /\ gone' = gone \cup {j}
        /\ o # "saved" => disk' \in {disk, Torn} /\ gone' = gone
    BY <2>1 DEF Persist
  <2> HIDE DEF w
  <2>5. disk # Torn => Sound(disk, issued, asked \cup {j}, gone, setups)
    BY SoundAsked DEF StoreInv
  <2> QED
    BY <2>3, <2>4, <2>5 DEF StoreInv
<1>5. ASSUME NEW l \in Labels, SetupRefused(l)
      PROVE  StoreInv'
  <2> DEFINE m == [mem EXCEPT !.setup = TRUE]
  <2>1. m.setup /\ m.active = mem.active /\ m.label = mem.label
    BY FlagFacts, Zenon
  <2>2. mem' = m /\ UNCHANGED <<up, disk, issued, asked, gone, setups>>
    BY <1>5 DEF SetupRefused
  <2> HIDE DEF m
  <2> QED
    BY <2>1, <2>2 DEF StoreInv, Sound, OneKeyEach
<1>6. CASE Stop
  BY <1>6 DEF Stop, StoreInv
<1>7. CASE Start
  BY <1>7 DEF Start, StoreInv
<1>8. CASE UNCHANGED vars
  BY <1>8 DEF vars, StoreInv
<1> QED
  BY <1>1, <1>2, <1>3, <1>4, <1>5, <1>6, <1>7, <1>8 DEF Next

\* Memory and file are sound in every reachable state.
LEMMA StoreAlways == Spec => []StoreInv
<1>1. Init => StoreInv
  BY DEF Init, StoreInv, Sound, OneKeyEach, NoKeys
<1>2. TypeOK /\ StoreInv /\ [Next]_vars => StoreInv'
  BY StoreInvKept
<1> QED
  BY <1>1, <1>2, TypeCorrect, PTL DEF Spec

\* One working key per label, whatever saves failed.
THEOREM LabelsUnique == Spec => []OneKeyPerLabel
<1>1. StoreInv => OneKeyPerLabel
  BY DEF StoreInv, Sound, OneKeyPerLabel
<1> QED
  BY <1>1, StoreAlways, PTL

\* No confirmed revocation is ever undone, by a restart or by a failed save.
THEOREM RevocationsHold == Spec => []RevokedStaysOut
<1>1. StoreInv => RevokedStaysOut
  BY DEF StoreInv, Sound, RevokedStaysOut
<1> QED
  BY <1>1, StoreAlways, PTL

\* Keys in clients' hands keep working for as long as the server can start.
THEOREM IssuedKeysKept == Spec => []IssuedKeysWork
<1>1. StoreInv => IssuedKeysWork
  BY DEF StoreInv, Sound, IssuedKeysWork
<1> QED
  BY <1>1, StoreAlways, PTL

\* No second setup succeeds.
THEOREM SetupAtMostOnce == Spec => []SetupOnce
<1>1. StoreInv => SetupOnce
  BY DEF StoreInv, SetupOnce
<1> QED
  BY <1>1, StoreAlways, PTL
=============================================================================
