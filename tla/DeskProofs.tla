------------------------------ MODULE DeskProofs ------------------------------
(***************************************************************************)
(* Theorems about the parts that MCDesk puts at one desk.  Each part keeps *)
(* an invariant of its own; a step of the desk is a step of one part while *)
(* the others rest.                                                        *)
(***************************************************************************)
EXTENDS MCDesk, Sequences, FiniteSetTheorems, TLAPS

(***************************************************************************)
(* The limit on calls of the assistant.                                    *)
(***************************************************************************)

\* Sizes as RateLimit has them.
LEMMA LimitSize == \A K : M!Cardinality(K) = Cardinality(K) /\ (M!IsFiniteSet(K) <=> IsFiniteSet(K))
<1>1. ASSUME NEW K PROVE M!Cardinality(K) = Cardinality(K)
  BY DEF M!Cardinality, Cardinality
<1>2. ASSUME NEW K PROVE M!IsFiniteSet(K) <=> IsFiniteSet(K)
  BY DEF M!IsFiniteSet, IsFiniteSet
<1> QED BY <1>1, <1>2

LEMMA SizeSub ==
    ASSUME NEW T, M!IsFiniteSet(T), NEW K, K \subseteq T
    PROVE  M!IsFiniteSet(K) /\ M!Cardinality(K) \in Nat /\ M!Cardinality(K) <= M!Cardinality(T)
<1>1. IsFiniteSet(K) /\ Cardinality(K) \in Nat /\ Cardinality(K) <= Cardinality(T)
  BY FS_Subset, FS_CardinalityType, LimitSize
<1> QED BY <1>1, LimitSize

LEMMA SizeAdd ==
    ASSUME NEW K, M!IsFiniteSet(K), NEW x, x \notin K
    PROVE  /\ M!IsFiniteSet(K \cup {x}) /\ M!Cardinality(K) \in Nat
           /\ M!Cardinality(K \cup {x}) = M!Cardinality(K) + 1
<1>1. /\ IsFiniteSet(K \cup {x}) /\ Cardinality(K) \in Nat
      /\ Cardinality(K \cup {x}) = Cardinality(K) + 1
  BY FS_AddElement, FS_CardinalityType, LimitSize
<1> QED BY <1>1, LimitSize

LEMMA SizeUnion ==
    ASSUME NEW K, NEW T, M!IsFiniteSet(K), M!IsFiniteSet(T)
    PROVE  /\ M!IsFiniteSet(K \cup T)
           /\ M!Cardinality(K \cup T) \in Nat /\ M!Cardinality(K) \in Nat /\ M!Cardinality(T) \in Nat
           /\ M!Cardinality(K \cup T) <= M!Cardinality(K) + M!Cardinality(T)
<1>1. /\ IsFiniteSet(K) /\ IsFiniteSet(T) /\ IsFiniteSet(K \cup T)
      /\ Cardinality(K \cup T) = Cardinality(K) + Cardinality(T) - Cardinality(K \cap T)
  BY FS_Union, LimitSize
<1>2. Cardinality(K) \in Nat /\ Cardinality(T) \in Nat /\ Cardinality(K \cap T) \in Nat
      /\ Cardinality(K \cup T) \in Nat
  BY <1>1, FS_Subset, FS_CardinalityType
<1> QED BY <1>1, <1>2, LimitSize

\* The sizes in question are naturals.
LEMMA LimitSizes ==
    M!TypeOK => /\ \A K \in SUBSET passed : M!IsFiniteSet(K) /\ M!Cardinality(K) \in Nat
                /\ \A K \in SUBSET passed : \A T \in SUBSET K : M!Cardinality(T) <= M!Cardinality(K)
                /\ M!ByRedis \in SUBSET passed /\ hits \in SUBSET passed
                /\ M!Before \in SUBSET passed /\ M!Since \in SUBSET passed /\ M!AfterFirst \in SUBSET passed
                /\ M!IsFiniteSet(M!Allowed) /\ M!Cardinality(M!Allowed) \in Nat
                /\ M!AfterFirst \subseteq M!Since
                /\ counter.count \in Nat /\ counter.until \in Nat /\ M!Begun \in Int /\ now \in Nat
                /\ Limit \in Nat /\ Limit > 0 /\ Window \in Nat /\ Window > 0
<1> SUFFICES ASSUME M!TypeOK
      PROVE  /\ \A K \in SUBSET passed : M!IsFiniteSet(K) /\ M!Cardinality(K) \in Nat
             /\ \A K \in SUBSET passed : \A T \in SUBSET K : M!Cardinality(T) <= M!Cardinality(K)
             /\ M!ByRedis \in SUBSET passed /\ hits \in SUBSET passed
             /\ M!Before \in SUBSET passed /\ M!Since \in SUBSET passed /\ M!AfterFirst \in SUBSET passed
             /\ M!IsFiniteSet(M!Allowed) /\ M!Cardinality(M!Allowed) \in Nat
             /\ M!AfterFirst \subseteq M!Since
             /\ counter.count \in Nat /\ counter.until \in Nat /\ M!Begun \in Int /\ now \in Nat
             /\ Limit \in Nat /\ Limit > 0 /\ Window \in Nat /\ Window > 0
  OBVIOUS
<1>1. \A K \in SUBSET passed : M!IsFiniteSet(K) /\ M!Cardinality(K) \in Nat
  <2>1. M!IsFiniteSet(passed)
    BY DEF M!TypeOK
  <2> QED BY <2>1, SizeSub
<1>2. \A K \in SUBSET passed : \A T \in SUBSET K : M!Cardinality(T) <= M!Cardinality(K)
  BY <1>1, SizeSub
<1>3. M!Allowed \subseteq Run
  BY DEF M!Allowed
<1>4. M!IsFiniteSet(M!Allowed) /\ M!Cardinality(M!Allowed) \in Nat
  BY <1>3, SizeSub, LimitAssumption, LimitSize
<1>5. counter.count \in Nat /\ counter.until \in Nat /\ M!Begun \in Int /\ now \in Nat
  BY LimitAssumption DEF M!TypeOK, M!Begun
<1>6. M!AfterFirst \subseteq M!Since
  BY <1>5, LimitAssumption DEF M!AfterFirst, M!Since, M!TypeOK, M!ByRedis
<1> QED
  BY <1>1, <1>2, <1>4, <1>5, <1>6, LimitAssumption
  DEF M!TypeOK, M!ByRedis, M!Before, M!Since, M!AfterFirst

\* The bound: three sets make up what was let through.
LEMMA LimitSuffices == M!LimitInv => M!SpendBounded
<1> SUFFICES ASSUME M!LimitInv PROVE M!Cardinality(passed) < 3 * Limit
  BY DEF M!SpendBounded
<1>1. M!TypeOK /\ M!Counted
  BY DEF M!LimitInv
<1>2. \A c \in passed : c.at \in Nat
  BY <1>1 DEF M!TypeOK
<1>3. passed = (hits \cup M!Before) \cup M!Since
  BY <1>1, <1>2, LimitSizes DEF M!Before, M!Since, M!ByRedis
<1>4. M!Cardinality(passed) <= M!Cardinality(hits) + M!Cardinality(M!Before) + M!Cardinality(M!Since)
  <2>1. M!IsFiniteSet(hits) /\ M!IsFiniteSet(M!Before) /\ M!IsFiniteSet(M!Since)
    BY <1>1, LimitSizes
  <2>2. /\ M!IsFiniteSet(hits \cup M!Before) /\ M!Cardinality(hits \cup M!Before) \in Nat
        /\ M!Cardinality(hits) \in Nat /\ M!Cardinality(M!Before) \in Nat
        /\ M!Cardinality(hits \cup M!Before) <= M!Cardinality(hits) + M!Cardinality(M!Before)
    BY <2>1, SizeUnion
  <2>3. /\ M!Cardinality(passed) \in Nat /\ M!Cardinality(M!Since) \in Nat
        /\ M!Cardinality(passed) <= M!Cardinality(hits \cup M!Before) + M!Cardinality(M!Since)
    BY <1>3, <2>1, <2>2, SizeUnion
  <2> QED BY <2>2, <2>3
<1>5. /\ M!Cardinality(hits) \in Nat /\ M!Cardinality(M!Before) \in Nat /\ M!Cardinality(M!Since) \in Nat
      /\ M!Cardinality(M!Allowed) \in Nat /\ M!Cardinality(passed) \in Nat /\ Limit \in Nat
  BY <1>1, LimitSizes
<1> QED BY <1>1, <1>4, <1>5 DEF M!Counted

LEMMA LimitInit == M!Init => M!LimitInv
<1> SUFFICES ASSUME M!Init PROVE M!LimitInv
  OBVIOUS
<1>1. passed = {} /\ hits = {} /\ M!ByRedis = {} /\ M!Since = {} /\ M!Before = {} /\ M!Allowed = {}
  BY DEF M!Init, M!ByRedis, M!Since, M!Before, M!Allowed
<1>2. M!IsFiniteSet({}) /\ M!Cardinality({}) = 0
  BY FS_EmptySet, LimitSize
<1>3. M!TypeOK
  BY <1>1, <1>2 DEF M!Init, M!TypeOK
<1>4. M!Dated
  BY <1>1, LimitAssumption DEF M!Init, M!Dated, M!Begun
<1>5. M!Counted
  BY <1>1, <1>2, LimitAssumption DEF M!Init, M!Counted
<1> QED BY <1>3, <1>4, <1>5 DEF M!LimitInv

\* Of two requests the same holds as before, if none more is let through by Redis.
LEMMA LimitSame ==
    ASSUME M!LimitInv, UNCHANGED <<now, counter, hits, passed>>, M!TypeOK',
           M!Allowed' \subseteq M!Allowed
    PROVE  M!LimitInv'
<1>1. /\ M!Begun' = M!Begun /\ M!ByRedis' = M!ByRedis /\ M!Before' = M!Before
      /\ M!Since' = M!Since /\ M!AfterFirst' = M!AfterFirst
  BY DEF M!Begun, M!ByRedis, M!Before, M!Since, M!AfterFirst
<1>2. M!Dated'
  BY <1>1 DEF M!LimitInv, M!Dated
<1>3. M!Cardinality(M!Allowed') \in Nat /\ M!Cardinality(M!Allowed') <= M!Cardinality(M!Allowed)
  BY LimitSizes, SizeSub DEF M!LimitInv
<1>4. /\ M!Cardinality(M!Since) \in Nat /\ M!Cardinality(M!AfterFirst) \in Nat
      /\ M!Cardinality(M!Allowed) \in Nat /\ counter.count \in Nat /\ Limit \in Nat
  BY LimitSizes DEF M!LimitInv
<1>5. M!Counted'
  BY <1>1, <1>3, <1>4 DEF M!LimitInv, M!Counted
<1> QED BY <1>2, <1>5 DEF M!LimitInv

LEMMA LimitTick == M!LimitInv /\ M!Tick => M!LimitInv'
<1> SUFFICES ASSUME M!LimitInv, M!Tick PROVE M!LimitInv'
  OBVIOUS
<1>1. /\ now' = now + 1 /\ counter' = counter /\ request' = request
      /\ hits' = M!Recent(hits, now') /\ passed' = M!Recent(passed, now')
      /\ \A r \in Run : request[r] = "idle"
  BY DEF M!Tick
<1>2. M!TypeOK
  BY DEF M!LimitInv
<1>3. passed' \subseteq passed /\ hits' \subseteq hits /\ hits' \subseteq passed'
  BY <1>1, <1>2 DEF M!Recent, M!TypeOK
<1>4. M!ByRedis' \subseteq M!ByRedis
  BY <1>1, <1>3, <1>2 DEF M!ByRedis, M!Recent, M!TypeOK
<1>5. M!Begun' = M!Begun /\ M!Begun \in Int
  BY <1>1, <1>2, LimitSizes DEF M!Begun
<1>6. M!Before' \subseteq M!Before /\ M!Since' \subseteq M!Since /\ M!AfterFirst' \subseteq M!AfterFirst
  BY <1>4, <1>5 DEF M!Before, M!Since, M!AfterFirst
<1>7. M!Allowed = {} /\ M!Allowed' = {}
  BY <1>1 DEF M!Allowed
<1>8. M!TypeOK'
  BY <1>1, <1>2, <1>3, SizeSub DEF M!TypeOK
<1>9. M!Dated'
  <2>1. \A c \in passed : c.at \in Nat /\ c.at <= now
    BY <1>2 DEF M!LimitInv, M!Dated, M!TypeOK
  <2>2. \A c \in passed' : c.at \in Nat /\ c.at <= now /\ now' - c.at < Window
    BY <1>1, <2>1 DEF M!Recent
  <2> QED BY <1>1, <1>2, <1>4, <1>5, <1>7, <2>2 DEF M!LimitInv, M!Dated, M!TypeOK
<1>10. M!Counted'
  <2>1. M!Cardinality({}) = 0
    BY FS_EmptySet, LimitSize
  <2>2. /\ M!Cardinality(hits') \in Nat /\ M!Cardinality(hits') <= M!Cardinality(hits)
        /\ M!Cardinality(M!Before') \in Nat /\ M!Cardinality(M!Before') <= M!Cardinality(M!Before)
        /\ M!Cardinality(M!Since') \in Nat /\ M!Cardinality(M!Since') <= M!Cardinality(M!Since)
        /\ M!Cardinality(M!AfterFirst') \in Nat
        /\ M!Cardinality(M!AfterFirst') <= M!Cardinality(M!AfterFirst)
        /\ M!Cardinality(hits) \in Nat /\ M!Cardinality(M!Before) \in Nat
        /\ M!Cardinality(M!Since) \in Nat /\ M!Cardinality(M!AfterFirst) \in Nat
    BY <1>2, <1>3, <1>6, LimitSizes, SizeSub
  <2>3. counter.count \in Nat /\ Limit \in Nat /\ Limit > 0 /\ now \in Nat
    BY <1>2, LimitSizes
  <2>4. M!Begun = now => M!Cardinality(M!AfterFirst) = 0
    <3>1. M!Begun = now => M!AfterFirst = {}
      BY <1>2, LimitSizes DEF M!AfterFirst, M!ByRedis, M!LimitInv, M!Dated, M!TypeOK
    <3> QED BY <2>1, <3>1
  <2>5. M!Begun <= now
    BY DEF M!LimitInv, M!Dated
  <2>6. M!Counted
    BY DEF M!LimitInv
  <2>7. /\ M!Cardinality(hits') <= Limit
        /\ M!Cardinality(M!Since') + M!Cardinality(M!Allowed') <= counter'.count
        /\ M!Cardinality(M!Since') + M!Cardinality(M!Allowed') <= Limit
        /\ M!Cardinality(M!Before') < Limit
    BY <1>1, <1>7, <2>1, <2>2, <2>3, <2>6 DEF M!Counted
  <2>8. CASE counter.count = 0
    BY <1>1, <1>4, <2>6, <2>7, <2>8 DEF M!Counted
  <2>9. CASE counter.count # 0
    <3>1. /\ M!Cardinality(M!AfterFirst') + M!Cardinality(M!Allowed') < counter.count
          /\ M!Cardinality(M!AfterFirst') + M!Cardinality(M!Allowed') < Limit
      BY <1>5, <1>7, <2>1, <2>2, <2>3, <2>4, <2>5, <2>6, <2>9 DEF M!Counted
    <3> QED BY <1>1, <2>7, <2>9, <3>1 DEF M!Counted
  <2> QED BY <2>8, <2>9
<1> QED BY <1>8, <1>9, <1>10 DEF M!LimitInv

LEMMA LimitConsume ==
    ASSUME M!LimitInv, NEW r \in Run, M!Consume(r)
    PROVE  M!LimitInv'
<1>1. /\ UNCHANGED <<now, hits, passed>> /\ request[r] = "asked"
      /\ counter' = IF now >= counter.until THEN [count |-> 1, until |-> now + Window]
                    ELSE [counter EXCEPT !.count = IF @ > Limit THEN @ ELSE @ + 1]
      /\ request' = [request EXCEPT ![r] = IF counter'.count <= Limit THEN "allowed" ELSE "limited"]
  BY DEF M!Consume
<1>2. M!TypeOK /\ M!Dated /\ M!Counted
  BY DEF M!LimitInv
<1>3. /\ counter.count \in Nat /\ counter.until \in Nat /\ now \in Nat /\ M!Begun \in Int
      /\ Limit \in Nat /\ Limit > 0 /\ Window \in Nat /\ Window > 0
      /\ M!Cardinality(M!Allowed) \in Nat /\ M!IsFiniteSet(M!Allowed)
      /\ M!Cardinality(M!Since) \in Nat /\ M!Cardinality(M!AfterFirst) \in Nat
  BY <1>2, LimitSizes, LimitSize
<1>4. counter' \in [count : Nat, until : Nat]
  BY <1>1, <1>2, <1>3 DEF M!TypeOK
<1>5. M!TypeOK'
  BY <1>1, <1>2, <1>4 DEF M!TypeOK
<1>6. M!Allowed' = IF counter'.count <= Limit THEN M!Allowed \cup {r} ELSE M!Allowed
  BY <1>1, <1>2 DEF M!Allowed, M!TypeOK
<1>7. r \notin M!Allowed
  BY <1>1 DEF M!Allowed
<1>8. M!Cardinality(M!Allowed') =
        IF counter'.count <= Limit THEN M!Cardinality(M!Allowed) + 1 ELSE M!Cardinality(M!Allowed)
  BY <1>3, <1>6, <1>7, SizeAdd
<1>9. M!ByRedis' = M!ByRedis
  BY <1>1 DEF M!ByRedis
<1>10. M!Cardinality({}) = 0
  BY FS_EmptySet, LimitSize
<1>11. CASE now >= counter.until
  <2>1. counter' = [count |-> 1, until |-> now + Window] /\ M!Begun' = now
    BY <1>1, <1>3, <1>11 DEF M!Begun
  <2>2. M!Allowed = {}
    BY <1>2, <1>3, <1>11 DEF M!Dated
  <2>3. M!Since' = {}
    BY <1>2, <1>3, <1>9, <1>11, <2>1 DEF M!Since, M!ByRedis, M!Dated, M!TypeOK
  <2>4. M!Before' \subseteq M!AfterFirst
    <3> SUFFICES ASSUME NEW c \in M!ByRedis PROVE c.at > M!Begun
      BY <1>9 DEF M!Before, M!AfterFirst
    <3>1. c.at \in Nat /\ now - c.at < Window
      BY <1>2 DEF M!Dated, M!TypeOK, M!ByRedis
    <3> QED BY <1>3, <1>11, <3>1 DEF M!Begun
  <2>5. M!Cardinality(M!Before') \in Nat /\ M!Cardinality(M!Before') < Limit
    <3>1. M!IsFiniteSet(M!AfterFirst)
      BY <1>2, LimitSizes, LimitSize
    <3>2. M!Cardinality(M!Before') \in Nat /\ M!Cardinality(M!Before') <= M!Cardinality(M!AfterFirst)
      BY <2>4, <3>1, SizeSub
    <3>3. CASE counter.count = 0
      <4>1. M!AfterFirst = {}
        BY <1>2, <3>3 DEF M!Counted, M!AfterFirst
      <4> QED BY <1>3, <1>10, <3>2, <4>1
    <3>4. CASE counter.count # 0
      <4>1. M!Begun < now
        BY <1>3, <1>11 DEF M!Begun
      <4> QED BY <1>2, <1>3, <3>2, <3>4, <4>1 DEF M!Counted
    <3> QED BY <3>3, <3>4
  <2>6. M!Cardinality(M!Allowed') = 1
    BY <1>3, <1>8, <1>10, <2>1, <2>2
  <2>7. M!Counted'
    BY <1>1, <1>2, <1>3, <1>10, <2>1, <2>3, <2>5, <2>6 DEF M!Counted
  <2>8. M!Dated'
    <3>1. \A c \in M!ByRedis : c.at \in Nat /\ c.at <= now
      BY <1>2 DEF M!Dated, M!TypeOK, M!ByRedis
    <3> QED BY <1>1, <1>2, <1>3, <1>9, <2>1, <3>1 DEF M!Dated
  <2> QED BY <1>5, <2>7, <2>8 DEF M!LimitInv
<1>12. CASE ~(now >= counter.until)
  <2>1. /\ counter'.until = counter.until
        /\ counter'.count = IF counter.count > Limit THEN counter.count ELSE counter.count + 1
    BY <1>1, <1>2, <1>12 DEF M!TypeOK
  <2>2. /\ M!Begun' = M!Begun /\ M!Before' = M!Before
        /\ M!Since' = M!Since /\ M!AfterFirst' = M!AfterFirst
    BY <1>9, <2>1 DEF M!Begun, M!Before, M!Since, M!AfterFirst
  <2>3. M!Dated'
    BY <1>1, <1>2, <1>3, <1>9, <1>12, <2>1, <2>2 DEF M!Dated
  <2>4. counter.count # 0
    BY <1>2, <1>3, <1>12 DEF M!Counted
  <2>5. M!Counted'
    BY <1>1, <1>2, <1>3, <1>8, <1>9, <1>10, <2>1, <2>2, <2>4 DEF M!Counted
  <2> QED BY <1>5, <2>3, <2>5 DEF M!LimitInv
<1> QED BY <1>11, <1>12

LEMMA LimitAnswer ==
    ASSUME M!LimitInv, NEW r \in Run, M!Answer(r)
    PROVE  M!LimitInv'
<1>1. /\ UNCHANGED <<now, counter, hits>> /\ request[r] \in {"allowed", "limited"}
      /\ passed' = IF request[r] = "allowed" THEN passed \cup {M!Call} ELSE passed
      /\ request' = [request EXCEPT ![r] = "idle"]
  BY DEF M!Answer
<1>2. M!TypeOK /\ M!Dated /\ M!Counted
  BY DEF M!LimitInv
<1>3. M!Allowed' = M!Allowed \ {r}
  BY <1>1, <1>2 DEF M!Allowed, M!TypeOK
<1>4. CASE request[r] = "limited"
  <2>1. M!TypeOK'
    BY <1>1, <1>2, <1>4 DEF M!TypeOK
  <2> QED BY <1>1, <1>3, <1>4, <2>1, LimitSame
<1>5. CASE request[r] = "allowed"
  <2> DEFINE c == M!Call
  <2>1. /\ counter.count \in Nat /\ counter.until \in Nat /\ now \in Nat /\ M!Begun \in Int
        /\ Limit \in Nat /\ Limit > 0 /\ Window \in Nat /\ Window > 0
        /\ M!Cardinality(M!Allowed) \in Nat /\ M!IsFiniteSet(M!Allowed)
        /\ M!Cardinality(passed) \in Nat /\ M!IsFiniteSet(passed)
        /\ M!Cardinality(M!Since) \in Nat /\ M!IsFiniteSet(M!Since)
        /\ M!Cardinality(M!AfterFirst) \in Nat /\ M!IsFiniteSet(M!AfterFirst)
    BY <1>2, LimitSizes, LimitSize
  <2>2. c = [at |-> now, nth |-> M!Cardinality(passed)] /\ c.at = now /\ c.nth = M!Cardinality(passed)
    BY DEF M!Call
  <2> HIDE DEF c
  <2>3. c \notin passed
    BY <1>2, <2>1, <2>2 DEF M!Dated
  <2>4. passed' = passed \cup {c}
    BY <1>1, <1>5 DEF c
  <2>5. M!IsFiniteSet(passed') /\ M!Cardinality(passed') = M!Cardinality(passed) + 1
    BY <2>1, <2>3, <2>4, SizeAdd
  <2>6. M!TypeOK'
    <3>1. c \in [at : Nat, nth : Nat]
      BY <2>1, <2>2
    <3> QED BY <1>1, <1>2, <2>4, <2>5, <3>1 DEF M!TypeOK
  <2>7. r \in M!Allowed /\ now < counter.until
    BY <1>2, <1>5 DEF M!Allowed, M!Dated
  <2>8. M!Cardinality(M!Allowed') = M!Cardinality(M!Allowed) - 1
    <3>1. M!IsFiniteSet(M!Allowed')
      BY <1>3, <2>1, SizeSub
    <3>2. M!Allowed = M!Allowed' \cup {r} /\ r \notin M!Allowed'
      BY <1>3, <2>7
    <3>3. /\ M!Cardinality(M!Allowed') \in Nat
          /\ M!Cardinality(M!Allowed' \cup {r}) = M!Cardinality(M!Allowed') + 1
      BY <3>1, <3>2, SizeAdd
    <3>4. M!Cardinality(M!Allowed) = M!Cardinality(M!Allowed') + 1
      BY <3>2, <3>3
    <3> QED BY <3>3, <3>4
  <2>9. M!ByRedis' = M!ByRedis \cup {c} /\ M!Begun' = M!Begun /\ c \notin hits /\ M!Begun <= now
    BY <1>1, <1>2, <2>3, <2>4 DEF M!ByRedis, M!Begun, M!TypeOK, M!Dated
  <2>10. M!Before' = M!Before /\ M!Since' = M!Since \cup {c} /\ c \notin M!Since
    BY <2>1, <2>2, <2>3, <2>9 DEF M!Before, M!Since, M!ByRedis
  <2>11. M!Cardinality(M!Since') = M!Cardinality(M!Since) + 1
    BY <2>1, <2>10, SizeAdd
  <2>12. M!Begun < now => M!Cardinality(M!AfterFirst') = M!Cardinality(M!AfterFirst) + 1
    <3>1. M!Begun < now => M!AfterFirst' = M!AfterFirst \cup {c} /\ c \notin M!AfterFirst
      BY <2>1, <2>2, <2>3, <2>9 DEF M!AfterFirst, M!ByRedis
    <3> QED BY <2>1, <3>1, SizeAdd
  <2>13. counter.count # 0
    BY <1>2, <2>1, <2>7 DEF M!Counted
  <2>14. M!Counted'
    BY <1>1, <1>2, <2>1, <2>8, <2>9, <2>10, <2>11, <2>12, <2>13 DEF M!Counted
  <2>15. M!Dated'
    <3>1. \A d \in passed : d.at \in Nat /\ d.nth \in Nat
      BY <1>2 DEF M!TypeOK
    <3>2. \A d \in passed' : d.at <= now /\ now - d.at < Window
                              /\ (d.at = now => d.nth < M!Cardinality(passed'))
      BY <1>2, <2>1, <2>2, <2>4, <2>5, <3>1 DEF M!Dated
    <3>3. \A d \in M!ByRedis' : d.at < counter.until
      BY <1>2, <2>2, <2>7, <2>9 DEF M!Dated
    <3> QED BY <1>1, <2>7, <2>9, <3>2, <3>3 DEF M!Dated
  <2> QED BY <2>6, <2>14, <2>15 DEF M!LimitInv
<1> QED BY <1>1, <1>4, <1>5

LEMMA LimitFallback ==
    ASSUME M!LimitInv, NEW r \in Run, M!Fallback(r)
    PROVE  M!LimitInv'
<1>1. /\ UNCHANGED <<now, counter>> /\ request[r] = "fallback"
      /\ IF M!Cardinality(M!Recent(hits, now)) >= Limit THEN UNCHANGED <<hits, passed>>
         ELSE hits' = hits \cup {M!Call} /\ passed' = passed \cup {M!Call}
      /\ request' = [request EXCEPT ![r] = "idle"]
  BY DEF M!Fallback, M!Remembered
<1>2. M!TypeOK /\ M!Dated /\ M!Counted
  BY DEF M!LimitInv
<1>3. M!Allowed' = M!Allowed
  BY <1>1, <1>2 DEF M!Allowed, M!TypeOK
<1>4. CASE M!Cardinality(M!Recent(hits, now)) >= Limit
  <2>1. M!TypeOK'
    BY <1>1, <1>2, <1>4 DEF M!TypeOK
  <2> QED BY <1>1, <1>3, <1>4, <2>1, LimitSame
<1>5. CASE ~(M!Cardinality(M!Recent(hits, now)) >= Limit)
  <2> DEFINE c == M!Call
  <2>1. /\ counter.count \in Nat /\ now \in Nat /\ Limit \in Nat /\ Window \in Nat /\ Window > 0
        /\ M!Cardinality(passed) \in Nat /\ M!IsFiniteSet(passed)
        /\ M!Cardinality(hits) \in Nat /\ M!IsFiniteSet(hits)
    BY <1>2, LimitSizes, LimitSize
  <2>2. c = [at |-> now, nth |-> M!Cardinality(passed)] /\ c.at = now /\ c.nth = M!Cardinality(passed)
    BY DEF M!Call
  <2>3. hits' = hits \cup {c} /\ passed' = passed \cup {c}
    BY <1>1, <1>5
  <2> HIDE DEF c
  <2>4. c \notin passed /\ c \notin hits
    BY <1>2, <2>1, <2>2 DEF M!Dated, M!TypeOK
  <2>5. /\ M!IsFiniteSet(passed') /\ M!Cardinality(passed') = M!Cardinality(passed) + 1
        /\ M!Cardinality(hits') = M!Cardinality(hits) + 1
    BY <2>1, <2>3, <2>4, SizeAdd
  <2>6. M!TypeOK'
    <3>1. c \in [at : Nat, nth : Nat]
      BY <2>1, <2>2
    <3> QED BY <1>1, <1>2, <2>3, <2>5, <3>1 DEF M!TypeOK
  <2>7. M!Recent(hits, now) = hits
    BY <1>2 DEF M!Recent, M!Dated, M!TypeOK
  <2>8. M!ByRedis' = M!ByRedis /\ M!Begun' = M!Begun
    BY <1>1, <2>3, <2>4 DEF M!ByRedis, M!Begun
  <2>9. M!Before' = M!Before /\ M!Since' = M!Since /\ M!AfterFirst' = M!AfterFirst
    BY <2>8 DEF M!Before, M!Since, M!AfterFirst
  <2>10. M!Cardinality(hits') <= Limit
    BY <1>5, <2>1, <2>5, <2>7
  <2>11. M!Counted'
    BY <1>1, <1>2, <1>3, <2>8, <2>9, <2>10 DEF M!Counted
  <2>12. M!Dated'
    <3>1. \A d \in passed : d.at \in Nat /\ d.nth \in Nat
      BY <1>2 DEF M!TypeOK
    <3>2. \A d \in passed' : d.at <= now /\ now - d.at < Window
                              /\ (d.at = now => d.nth < M!Cardinality(passed'))
      BY <1>2, <2>1, <2>2, <2>3, <2>5, <3>1 DEF M!Dated
    <3> QED BY <1>1, <1>2, <1>3, <2>8, <3>2 DEF M!Dated
  <2> QED BY <2>6, <2>11, <2>12 DEF M!LimitInv
<1> QED BY <1>4, <1>5

LEMMA LimitStep == M!LimitInv /\ [M!Next]_(M!vars) => M!LimitInv'
<1> SUFFICES ASSUME M!LimitInv, [M!Next]_(M!vars) PROVE M!LimitInv'
  OBVIOUS
<1>1. M!TypeOK
  BY DEF M!LimitInv
<1>2. CASE M!Tick
  BY <1>2, LimitTick
<1>3. ASSUME NEW r \in Run, M!Ask(r) \/ M!GiveUp(r) PROVE M!LimitInv'
  <2>1. M!TypeOK' /\ UNCHANGED <<now, counter, hits, passed>>
    BY <1>1, <1>3 DEF M!Ask, M!GiveUp, M!TypeOK
  <2>2. M!Allowed' \subseteq M!Allowed
    BY <1>1, <1>3 DEF M!Ask, M!GiveUp, M!TypeOK, M!Allowed
  <2> QED BY <2>1, <2>2, LimitSame
<1>4. CASE UNCHANGED M!vars
  <2>1. M!TypeOK' /\ M!Allowed' = M!Allowed /\ UNCHANGED <<now, counter, hits, passed>>
    BY <1>1, <1>4 DEF M!vars, M!TypeOK, M!Allowed
  <2> QED BY <2>1, LimitSame
<1> QED BY <1>2, <1>3, <1>4, LimitConsume, LimitAnswer, LimitFallback DEF M!Next

(***************************************************************************)
(* The voice recorder.                                                     *)
(***************************************************************************)

TakeState == {"none", "asked", "recording", "stopping", "over"}
TakeRow == [state : TakeState, open : BOOLEAN, dropped : BOOLEAN, heard : BOOLEAN]
Takes == [V!Take -> TakeRow]

\* The edits of a take, and what each leaves alone.
Moved(f, t, s) == [f EXCEPT ![t].state = s]
Closed(f, t) == [f EXCEPT ![t].open = FALSE]
Opened(f, t) == [f EXCEPT ![t].open = TRUE]
Dropped(f, t) == [f EXCEPT ![t].dropped = TRUE]
Judged(f, t) == [f EXCEPT ![t].heard = ~cancelled]

LEMMA TakeMoves ==
    \A f \in Takes : \A t \in V!Take : \A s \in TakeState : \A u \in V!Take :
        /\ (u = t => (Moved(f, t, s)[u].state = s)) /\ (u # t => (Moved(f, t, s)[u].state = f[u].state))
        /\ (Moved(f, t, s)[u].open <=> f[u].open)
        /\ (Moved(f, t, s)[u].dropped <=> f[u].dropped)
        /\ (Moved(f, t, s)[u].heard <=> f[u].heard)
<1> SUFFICES ASSUME NEW f \in Takes, NEW t \in V!Take, NEW s \in TakeState, NEW u \in V!Take
      PROVE
        /\ (u = t => (Moved(f, t, s)[u].state = s)) /\ (u # t => (Moved(f, t, s)[u].state = f[u].state))
        /\ (Moved(f, t, s)[u].open <=> f[u].open)
        /\ (Moved(f, t, s)[u].dropped <=> f[u].dropped)
        /\ (Moved(f, t, s)[u].heard <=> f[u].heard)
  OBVIOUS
<1>1. f[t] \in TakeRow /\ f[u] \in TakeRow /\ DOMAIN f = V!Take
  BY DEF Takes
<1>2. PICK r : r = [f[t] EXCEPT !.state = s]
  OBVIOUS
<1>3. /\ r \in TakeRow /\ (r.state = s)
      /\ r.open = f[t].open
      /\ r.dropped = f[t].dropped
      /\ r.heard = f[t].heard
  BY <1>1, <1>2 DEF TakeRow
<1>4. Moved(f, t, s) = [f EXCEPT ![t] = r]
  BY <1>2 DEF Moved
<1> QED BY <1>1, <1>3, <1>4

LEMMA TakeCloses ==
    \A f \in Takes : \A t \in V!Take : \A u \in V!Take :
        /\ (Closed(f, t)[u].state = f[u].state)
        /\ (Closed(f, t)[u].open <=> u # t /\ f[u].open)
        /\ (Closed(f, t)[u].dropped <=> f[u].dropped)
        /\ (Closed(f, t)[u].heard <=> f[u].heard)
<1> SUFFICES ASSUME NEW f \in Takes, NEW t \in V!Take, NEW u \in V!Take
      PROVE
        /\ (Closed(f, t)[u].state = f[u].state)
        /\ (Closed(f, t)[u].open <=> u # t /\ f[u].open)
        /\ (Closed(f, t)[u].dropped <=> f[u].dropped)
        /\ (Closed(f, t)[u].heard <=> f[u].heard)
  OBVIOUS
<1>1. f[t] \in TakeRow /\ f[u] \in TakeRow /\ DOMAIN f = V!Take
  BY DEF Takes
<1>2. PICK r : r = [f[t] EXCEPT !.open = FALSE]
  OBVIOUS
<1>3. /\ r \in TakeRow /\ (r.open <=> FALSE)
      /\ r.state = f[t].state
      /\ r.dropped = f[t].dropped
      /\ r.heard = f[t].heard
  BY <1>1, <1>2 DEF TakeRow
<1>4. Closed(f, t) = [f EXCEPT ![t] = r]
  BY <1>2 DEF Closed
<1> QED BY <1>1, <1>3, <1>4

LEMMA TakeOpens ==
    \A f \in Takes : \A t \in V!Take : \A u \in V!Take :
        /\ (Opened(f, t)[u].state = f[u].state)
        /\ (Opened(f, t)[u].open <=> u = t \/ f[u].open)
        /\ (Opened(f, t)[u].dropped <=> f[u].dropped)
        /\ (Opened(f, t)[u].heard <=> f[u].heard)
<1> SUFFICES ASSUME NEW f \in Takes, NEW t \in V!Take, NEW u \in V!Take
      PROVE
        /\ (Opened(f, t)[u].state = f[u].state)
        /\ (Opened(f, t)[u].open <=> u = t \/ f[u].open)
        /\ (Opened(f, t)[u].dropped <=> f[u].dropped)
        /\ (Opened(f, t)[u].heard <=> f[u].heard)
  OBVIOUS
<1>1. f[t] \in TakeRow /\ f[u] \in TakeRow /\ DOMAIN f = V!Take
  BY DEF Takes
<1>2. PICK r : r = [f[t] EXCEPT !.open = TRUE]
  OBVIOUS
<1>3. /\ r \in TakeRow /\ (r.open <=> TRUE)
      /\ r.state = f[t].state
      /\ r.dropped = f[t].dropped
      /\ r.heard = f[t].heard
  BY <1>1, <1>2 DEF TakeRow
<1>4. Opened(f, t) = [f EXCEPT ![t] = r]
  BY <1>2 DEF Opened
<1> QED BY <1>1, <1>3, <1>4

LEMMA TakeDrops ==
    \A f \in Takes : \A t \in V!Take : \A u \in V!Take :
        /\ (Dropped(f, t)[u].state = f[u].state)
        /\ (Dropped(f, t)[u].open <=> f[u].open)
        /\ (Dropped(f, t)[u].dropped <=> u = t \/ f[u].dropped)
        /\ (Dropped(f, t)[u].heard <=> f[u].heard)
<1> SUFFICES ASSUME NEW f \in Takes, NEW t \in V!Take, NEW u \in V!Take
      PROVE
        /\ (Dropped(f, t)[u].state = f[u].state)
        /\ (Dropped(f, t)[u].open <=> f[u].open)
        /\ (Dropped(f, t)[u].dropped <=> u = t \/ f[u].dropped)
        /\ (Dropped(f, t)[u].heard <=> f[u].heard)
  OBVIOUS
<1>1. f[t] \in TakeRow /\ f[u] \in TakeRow /\ DOMAIN f = V!Take
  BY DEF Takes
<1>2. PICK r : r = [f[t] EXCEPT !.dropped = TRUE]
  OBVIOUS
<1>3. /\ r \in TakeRow /\ (r.dropped <=> TRUE)
      /\ r.state = f[t].state
      /\ r.open = f[t].open
      /\ r.heard = f[t].heard
  BY <1>1, <1>2 DEF TakeRow
<1>4. Dropped(f, t) = [f EXCEPT ![t] = r]
  BY <1>2 DEF Dropped
<1> QED BY <1>1, <1>3, <1>4

LEMMA TakeIsHeard ==
    \A f \in Takes : \A t \in V!Take : \A u \in V!Take :
        /\ (Judged(f, t)[u].state = f[u].state)
        /\ (Judged(f, t)[u].open <=> f[u].open)
        /\ (Judged(f, t)[u].dropped <=> f[u].dropped)
        /\ (u = t => (Judged(f, t)[u].heard <=> ~cancelled)) /\ (u # t => (Judged(f, t)[u].heard <=> f[u].heard))
<1> SUFFICES ASSUME NEW f \in Takes, NEW t \in V!Take, NEW u \in V!Take
      PROVE
        /\ (Judged(f, t)[u].state = f[u].state)
        /\ (Judged(f, t)[u].open <=> f[u].open)
        /\ (Judged(f, t)[u].dropped <=> f[u].dropped)
        /\ (u = t => (Judged(f, t)[u].heard <=> ~cancelled)) /\ (u # t => (Judged(f, t)[u].heard <=> f[u].heard))
  OBVIOUS
<1>1. f[t] \in TakeRow /\ f[u] \in TakeRow /\ DOMAIN f = V!Take
  BY DEF Takes
<1>2. PICK r : r = [f[t] EXCEPT !.heard = ~cancelled]
  OBVIOUS
<1>3. /\ r \in TakeRow /\ (r.heard <=> ~cancelled)
      /\ r.state = f[t].state
      /\ r.open = f[t].open
      /\ r.dropped = f[t].dropped
  BY <1>1, <1>2 DEF TakeRow
<1>4. Judged(f, t) = [f EXCEPT ![t] = r]
  BY <1>2 DEF Judged
<1> QED BY <1>1, <1>3, <1>4

LEMMA TakesStay ==
    \A f \in Takes : \A t \in V!Take :
        /\ Closed(f, t) \in Takes /\ Opened(f, t) \in Takes
        /\ Dropped(f, t) \in Takes /\ Judged(f, t) \in Takes
        /\ \A s \in TakeState : Moved(f, t, s) \in Takes
<1> SUFFICES ASSUME NEW f \in Takes, NEW t \in V!Take
      PROVE  /\ Closed(f, t) \in Takes /\ Opened(f, t) \in Takes
             /\ Dropped(f, t) \in Takes /\ Judged(f, t) \in Takes
             /\ \A s \in TakeState : Moved(f, t, s) \in Takes
  OBVIOUS
<1>1. f[t] \in TakeRow
  BY DEF Takes
<1>2. ASSUME NEW r \in TakeRow PROVE [f EXCEPT ![t] = r] \in Takes
  BY DEF Takes
<1>3. /\ [f[t] EXCEPT !.open = FALSE] \in TakeRow /\ [f[t] EXCEPT !.open = TRUE] \in TakeRow
      /\ [f[t] EXCEPT !.dropped = TRUE] \in TakeRow /\ [f[t] EXCEPT !.heard = ~cancelled] \in TakeRow
      /\ \A s \in TakeState : [f[t] EXCEPT !.state = s] \in TakeRow
  BY <1>1 DEF TakeRow
<1> QED BY <1>2, <1>3 DEF Closed, Opened, Dropped, Judged, Moved

LEMMA TakeStates == {"asked", "recording", "stopping", "over"} \subseteq TakeState
  BY DEF TakeState

LEMMA TakeHelpers ==
    /\ \A f : V!Released(f) = IF stream = 0 THEN f ELSE Closed(f, stream)
    /\ \A f : V!Stopping(f) = IF recorder # 0 /\ V!In(recorder, "recording")
                              THEN Moved(f, recorder, "stopping") ELSE f
    /\ \A t : take \in Takes => V!Over(t) = Judged(Moved(take, t, "over"), t)
<1>1. \A f : V!Released(f) = IF stream = 0 THEN f ELSE Closed(f, stream)
  BY DEF V!Released, Closed
<1>2. \A f : V!Stopping(f) = IF recorder # 0 /\ V!In(recorder, "recording")
                             THEN Moved(f, recorder, "stopping") ELSE f
  BY DEF V!Stopping, Moved
<1>3. \A t : take \in Takes => V!Over(t) = Judged(Moved(take, t, "over"), t)
  BY DEF V!Over, Judged, Moved, Takes
<1> QED BY <1>1, <1>2, <1>3

LEMMA TakeFields ==
    \A f \in Takes : \A t \in V!Take :
        /\ f[t].state \in {"none", "asked", "recording", "stopping", "over"}
        /\ f[t].open \in BOOLEAN /\ f[t].dropped \in BOOLEAN /\ f[t].heard \in BOOLEAN
  BY DEF Takes, TakeRow, TakeState

LEMMA VoiceRows == V!TypeOK => take \in Takes
  BY DEF V!TypeOK, Takes, TakeRow, TakeState

LEMMA VoiceRowsNext ==
    ASSUME take' \in Takes,
           stream' \in {0} \cup V!Take, recorder' \in {0} \cup V!Take,
           timer' \in BOOLEAN, cancelled' \in BOOLEAN, button' \in BOOLEAN, mounted' \in BOOLEAN,
           late' \in BOOLEAN, muddled' \in BOOLEAN
    PROVE  V!TypeOK'
  BY DEF V!TypeOK, Takes, TakeRow, TakeState

LEMMA VoiceType == V!TypeOK /\ [V!Next]_(V!vars) => V!TypeOK'
<1> SUFFICES ASSUME V!TypeOK, [V!Next]_(V!vars) PROVE V!TypeOK'
  OBVIOUS
<1>1. /\ take \in Takes /\ stream \in {0} \cup V!Take /\ recorder \in {0} \cup V!Take
      /\ timer \in BOOLEAN /\ cancelled \in BOOLEAN /\ button \in BOOLEAN /\ mounted \in BOOLEAN
      /\ late \in BOOLEAN /\ muddled \in BOOLEAN
  BY VoiceRows DEF V!TypeOK
<1>2. ASSUME NEW f \in Takes PROVE V!Released(f) \in Takes /\ V!Stopping(f) \in Takes
  BY <1>1, <1>2, TakesStay, TakeStates, TakeHelpers
<1>3. CASE V!Press
  <2>1. PICK t \in V!Take : take' = Moved(take, t, "asked")
    BY <1>3 DEF V!Press, Moved
  <2>2. take' \in Takes
    BY <1>1, <2>1, TakesStay, TakeStates
  <2> QED BY <1>1, <1>3, <2>2, VoiceRowsNext DEF V!Press
<1>4. CASE V!Stop
  BY <1>1, <1>2, <1>4, VoiceRowsNext DEF V!Stop
<1>5. CASE V!Cancel
  <2> DEFINE g == V!Stopping(V!Released(take))
  <2>1. take' = Dropped(g, recorder)
    BY <1>5 DEF V!Cancel, Dropped
  <2>2. g \in Takes
    BY <1>1, <1>2
  <2> HIDE DEF g
  <2>3. recorder \notin V!Take => take' = g
    BY <2>1, <2>2 DEF Takes, Dropped
  <2>4. take' \in Takes
    BY <2>1, <2>2, <2>3, TakesStay
  <2> QED BY <1>1, <1>5, <2>4, VoiceRowsNext DEF V!Cancel
<1>6. CASE V!Leave
  BY <1>1, <1>2, <1>6, VoiceRowsNext DEF V!Leave
<1>7. ASSUME NEW t \in V!Take, V!Refuse(t) \/ V!EndsByItself(t) PROVE V!TypeOK'
  <2>1. take' = Moved(take, t, "over") \/ take' = Moved(take, t, "stopping")
    BY <1>7 DEF V!Refuse, V!EndsByItself, Moved
  <2>2. take' \in Takes
    BY <1>1, <2>1, TakesStay, TakeStates
  <2> QED BY <1>1, <1>7, <2>2, VoiceRowsNext DEF V!Refuse, V!EndsByItself
<1>8. ASSUME NEW t \in V!Take, V!Grant(t) PROVE V!TypeOK'
  <2>1. take' = Opened(Moved(take, t, "recording"), t)
    BY <1>1, <1>8 DEF V!Grant, Takes, Opened, Moved
  <2>2. take' \in Takes
    BY <1>1, <2>1, TakesStay, TakeStates
  <2> QED BY <1>1, <1>8, <2>2, VoiceRowsNext DEF V!Grant
<1>11. ASSUME NEW t \in V!Take, V!GrantInVain(t) PROVE V!TypeOK'
  <2>1. take' = Opened(Moved(take, t, "over"), t)
    BY <1>1, <1>11 DEF V!GrantInVain, Takes, Opened, Moved
  <2>2. take' \in Takes
    BY <1>1, <2>1, TakesStay, TakeStates
  <2> QED BY <1>1, <1>11, <2>2, VoiceRowsNext DEF V!GrantInVain
<1>9. ASSUME NEW t \in V!Take, V!Stopped(t) PROVE V!TypeOK'
  <2>1. V!Over(t) \in Takes
    BY <1>1, TakeHelpers, TakesStay, TakeStates
  <2>2. take' \in Takes
    BY <1>2, <1>9, <2>1 DEF V!Stopped, V!AfterStop
  <2> QED BY <1>1, <1>9, <2>2, VoiceRowsNext DEF V!Stopped
<1>10. CASE UNCHANGED V!vars
  BY <1>10 DEF V!vars, V!TypeOK
<1> QED BY <1>3, <1>4, <1>5, <1>6, <1>7, <1>8, <1>9, <1>10, <1>11 DEF V!Next

LEMMA VoiceReleases ==
    ASSUME NEW f \in Takes, stream \in {0} \cup V!Take,
           \A u \in V!Take : f[u].open => stream = u
    PROVE  /\ V!Released(f) \in Takes
           /\ \A u \in V!Take : /\ ~V!Released(f)[u].open
                                /\ V!Released(f)[u].state = f[u].state
                                /\ (V!Released(f)[u].dropped <=> f[u].dropped)
                                /\ (V!Released(f)[u].heard <=> f[u].heard)
<1>1. 0 \notin V!Take
  BY DEF V!Take
<1>2. CASE stream = 0
  <2>1. V!Released(f) = f
    BY <1>2, TakeHelpers
  <2> QED BY <1>1, <1>2, <2>1
<1>3. CASE stream # 0
  <2>1. V!Released(f) = Closed(f, stream) /\ stream \in V!Take
    BY <1>3, TakeHelpers
  <2>2. Closed(f, stream) \in Takes
    BY <2>1, TakesStay
  <2>3. ASSUME NEW u \in V!Take
        PROVE  /\ ~Closed(f, stream)[u].open
               /\ Closed(f, stream)[u].state = f[u].state
               /\ (Closed(f, stream)[u].dropped <=> f[u].dropped)
               /\ (Closed(f, stream)[u].heard <=> f[u].heard)
    BY <2>1, <2>3, TakeCloses
  <2> QED BY <2>1, <2>2, <2>3
<1> QED BY <1>2, <1>3

LEMMA VoiceStep == V!VoiceInv /\ [V!Next]_(V!vars) => V!VoiceInv'
<1> SUFFICES ASSUME V!VoiceInv, [V!Next]_(V!vars), ~muddled' PROVE V!References'
  BY VoiceType DEF V!VoiceInv
<1> USE DEF V!In, V!On, V!UnderWay
<1>1. /\ take \in Takes /\ 0 \notin V!Take
      /\ stream \in {0} \cup V!Take /\ recorder \in {0} \cup V!Take
  BY VoiceRows DEF V!VoiceInv, V!Take, V!TypeOK
<1>2. ~muddled
  BY <1>1 DEF V!Next, V!vars, V!Press, V!Stop, V!Cancel, V!Leave, V!Refuse, V!Grant, V!EndsByItself,
              V!GrantInVain, V!Stopped
<1>3. V!References
  BY <1>2 DEF V!VoiceInv
<1>4. CASE V!Press
  <2>1. PICK t \in V!Take : take[t].state = "none" /\ take' = Moved(take, t, "asked")
    BY <1>4 DEF V!Press, Moved
  <2>2. \A u \in V!Take : ~V!UnderWay(u)
    BY <1>1, <1>2, <1>4, TakeFields DEF V!Press
  <2>3. \A u \in V!Take :
          /\ (u = t => take'[u].state = "asked") /\ (u # t => take'[u].state = take[u].state)
          /\ (take'[u].open <=> take[u].open) /\ (take'[u].dropped <=> take[u].dropped)
          /\ (take'[u].heard <=> take[u].heard)
    <3>1. \A u \in V!Take : LET f == Moved(take, t, "asked") IN
            /\ (u = t => f[u].state = "asked") /\ (u # t => f[u].state = take[u].state)
            /\ (f[u].open <=> take[u].open) /\ (f[u].dropped <=> take[u].dropped)
            /\ (f[u].heard <=> take[u].heard)
      BY <1>1, TakeMoves, TakeStates
    <3>2. take' = Moved(take, t, "asked")
      BY <2>1
    <3> QED BY <3>1, <3>2
  <2>4. stream = 0 /\ ~button
    BY <1>1, <1>3, <1>4, <2>2 DEF V!References, V!Press
  <2> QED BY <1>1, <1>3, <1>4, <2>1, <2>2, <2>3, <2>4 DEF V!Press, V!References
<1>5. CASE V!Stop
  <2>1. /\ UNCHANGED <<stream, recorder, cancelled, button, mounted, late>>
        /\ take' = V!Stopping(take)
    BY <1>5 DEF V!Stop
  <2>2. \A u \in V!Take :
          /\ (u = recorder /\ V!In(u, "recording") => take'[u].state = "stopping") /\ (~(u = recorder /\ V!In(u, "recording")) => take'[u].state = take[u].state)
          /\ (take'[u].open <=> take[u].open) /\ (take'[u].dropped <=> take[u].dropped)
          /\ (take'[u].heard <=> take[u].heard)
    <3>1. CASE recorder # 0 /\ V!In(recorder, "recording")
      <4>1. take' = Moved(take, recorder, "stopping") /\ recorder \in V!Take
        BY <1>1, <2>1, <3>1, TakeHelpers
      <4>2. \A u \in V!Take : LET f == Moved(take, recorder, "stopping") IN
              /\ (u = recorder => f[u].state = "stopping") /\ (u # recorder => f[u].state = take[u].state)
              /\ (f[u].open <=> take[u].open) /\ (f[u].dropped <=> take[u].dropped)
              /\ (f[u].heard <=> take[u].heard)
        BY <1>1, <4>1, TakeMoves, TakeStates
      <4> QED BY <3>1, <4>1, <4>2
    <3>2. CASE ~(recorder # 0 /\ V!In(recorder, "recording"))
      <4>1. take' = take
        BY <2>1, <3>2, TakeHelpers
      <4> QED BY <1>1, <3>2, <4>1
    <3> QED BY <3>1, <3>2
  <2> QED BY <1>1, <1>3, <2>1, <2>2 DEF V!References
<1>6. CASE V!Cancel
  <2>1. recorder \in V!Take /\ V!On(recorder) /\ button
    BY <1>1, <1>3, <1>6 DEF V!Cancel, V!References
  <2> DEFINE f == V!Released(take)
             g == V!Stopping(f)
  <2>2. /\ f \in Takes
        /\ \A u \in V!Take : /\ ~f[u].open
                             /\ f[u].state = take[u].state /\ (f[u].dropped <=> take[u].dropped)
                             /\ (f[u].heard <=> take[u].heard)
    <3>1. \A u \in V!Take : take[u].open => stream = u
      BY <1>3 DEF V!References
    <3> QED BY <1>1, <3>1, VoiceReleases
  <2>3. take' = Dropped(g, recorder)
    BY <1>6 DEF V!Cancel, Dropped
  <2>4. /\ g \in Takes
        /\ \A u \in V!Take :
             /\ (u = recorder => g[u].state = "stopping") /\ (u # recorder => g[u].state = take[u].state)
             /\ ~g[u].open /\ (g[u].dropped <=> take[u].dropped) /\ (g[u].heard <=> take[u].heard)
    <3> HIDE DEF f
    <3>1. CASE V!In(recorder, "recording")
      <4>1. recorder # 0 /\ g = Moved(f, recorder, "stopping")
        BY <1>1, <2>1, <3>1, TakeHelpers
      <4>2. Moved(f, recorder, "stopping") \in Takes
        BY <2>1, <2>2, TakesStay, TakeStates
      <4>3. \A u \in V!Take : LET h == Moved(f, recorder, "stopping") IN
              /\ (u = recorder => h[u].state = "stopping") /\ (u # recorder => h[u].state = f[u].state)
              /\ (h[u].open <=> f[u].open) /\ (h[u].dropped <=> f[u].dropped)
              /\ (h[u].heard <=> f[u].heard)
        BY <2>1, <2>2, TakeMoves, TakeStates
      <4> HIDE DEF g
      <4> QED BY <2>2, <4>1, <4>2, <4>3
    <3>2. CASE ~V!In(recorder, "recording")
      <4>1. g = f /\ take[recorder].state = "stopping"
        BY <2>1, <3>2, TakeHelpers
      <4> HIDE DEF g
      <4> QED BY <2>2, <4>1
    <3> QED BY <3>1, <3>2
  <2> HIDE DEF f, g
  <2>5. \A u \in V!Take :
          /\ (u = recorder => take'[u].state = "stopping") /\ (u # recorder => take'[u].state = take[u].state)
          /\ ~take'[u].open /\ (take'[u].heard <=> take[u].heard)
          /\ (take'[u].dropped <=> u = recorder \/ take[u].dropped)
    BY <2>1, <2>3, <2>4, TakeDrops
  <2>6. UNCHANGED <<recorder, late>> /\ cancelled' /\ ~button' /\ stream' = 0
    BY <1>6 DEF V!Cancel, Dropped
  <2> QED BY <1>1, <1>3, <2>1, <2>5, <2>6 DEF V!References
<1>7. CASE V!Leave
  <2>1. UNCHANGED <<recorder, late, button>> /\ cancelled' /\ stream' = 0
    BY <1>7 DEF V!Leave
  <2>2. \A u \in V!Take : /\ ~take'[u].open
                          /\ take'[u].state = take[u].state /\ (take'[u].dropped <=> take[u].dropped)
                          /\ (take'[u].heard <=> take[u].heard)
    <3>1. \A u \in V!Take : take[u].open => stream = u
      BY <1>3 DEF V!References
    <3>2. take' = V!Released(take)
      BY <1>7 DEF V!Leave
    <3> QED BY <1>1, <3>1, <3>2, VoiceReleases
  <2> QED BY <1>1, <1>3, <2>1, <2>2 DEF V!References
<1>8. ASSUME NEW t \in V!Take, V!Refuse(t) PROVE V!References'
  <2>1. /\ take[t].state = "asked" /\ UNCHANGED <<stream, recorder, cancelled, button, mounted, late>>
        /\ take' = Moved(take, t, "over")
    BY <1>8 DEF V!Refuse, Moved
  <2>2. \A u \in V!Take :
          /\ (u = t => take'[u].state = "over") /\ (u # t => take'[u].state = take[u].state)
          /\ (take'[u].open <=> take[u].open) /\ (take'[u].dropped <=> take[u].dropped)
          /\ (take'[u].heard <=> take[u].heard)
    <3>1. \A u \in V!Take : LET f == Moved(take, t, "over") IN
            /\ (u = t => f[u].state = "over") /\ (u # t => f[u].state = take[u].state)
            /\ (f[u].open <=> take[u].open) /\ (f[u].dropped <=> take[u].dropped)
            /\ (f[u].heard <=> take[u].heard)
      BY <1>1, TakeMoves, TakeStates
    <3>2. take' = Moved(take, t, "over")
      BY <2>1
    <3> QED BY <3>1, <3>2
  <2> QED BY <1>1, <1>3, <2>1, <2>2 DEF V!References
<1>9. ASSUME NEW t \in V!Take, V!Grant(t) PROVE V!References'
  <2>1. /\ take[t].state = "asked" /\ stream' = t /\ recorder' = t /\ button'
        /\ late' = (late \/ ~mounted) /\ UNCHANGED <<cancelled, mounted>>
        /\ take' = Opened(Moved(take, t, "recording"), t)
    BY <1>1, <1>9 DEF V!Grant, Moved, Opened, Takes
  <2> DEFINE f == Moved(take, t, "recording")
  <2>2. f \in Takes /\ take' = Opened(f, t)
    BY <1>1, <2>1, TakesStay, TakeMoves, TakeStates
  <2>3. \A u \in V!Take :
          /\ (u = t => f[u].state = "recording") /\ (u # t => f[u].state = take[u].state)
          /\ (f[u].open <=> take[u].open) /\ (f[u].dropped <=> take[u].dropped) /\ (f[u].heard <=> take[u].heard)
    BY <1>1, TakesStay, TakeMoves, TakeStates
  <2> HIDE DEF f
  <2>4. \A u \in V!Take :
          /\ (u = t => take'[u].state = "recording") /\ (u # t => take'[u].state = take[u].state)
          /\ (take'[u].open <=> u = t \/ take[u].open)
          /\ (take'[u].dropped <=> take[u].dropped) /\ (take'[u].heard <=> take[u].heard)
    BY <2>2, <2>3, TakeOpens
  <2>5. stream = 0 /\ \A u \in V!Take : (u # t => ~V!UnderWay(u)) /\ ~take[u].open
    BY <1>1, <1>3, <2>1 DEF V!References
  <2>6. \A u \in V!Take : (take[u].dropped => take[u].state = "over")
                          /\ (take[u].heard => take[u].state = "over" /\ ~take[u].dropped)
    BY <1>3, <2>1, <2>5 DEF V!References
  <2>7. mounted' \/ late'
    BY <2>1
  <2> HIDE DEF V!UnderWay
  <2>8. \A u \in V!Take : V!UnderWay(u)' => u = t
    BY <2>4, <2>5 DEF V!UnderWay
  <2>9. \A u \in V!Take : u # t => (take'[u].state = "over" <=> take[u].state = "over")
    BY <2>4
  <2>10. take[t].state # "over"
    BY <2>1
  <2>11. \A u \in V!Take :
          /\ take'[u].open => stream' = u
          /\ ~take'[t].dropped /\ ~take'[t].heard
          /\ take'[u].dropped => V!In(u, "over")'
          /\ take'[u].heard => V!In(u, "over")' /\ ~take'[u].dropped
    BY <2>1, <2>4, <2>5, <2>6, <2>10
  <2>12. V!On(t)'
    BY <2>4
  <2>13. \A u, v \in V!Take : (V!UnderWay(u) /\ V!UnderWay(v))' => u = v
    BY <2>8
  <2> QED BY <1>1, <2>1, <2>7, <2>11, <2>12, <2>13 DEF V!References
<1>10. ASSUME NEW t \in V!Take, V!EndsByItself(t) PROVE V!References'
  <2>1. /\ take[t].state = "recording" /\ UNCHANGED <<stream, recorder, cancelled, button, mounted, late>>
        /\ take' = Moved(take, t, "stopping")
    BY <1>10 DEF V!EndsByItself, Moved
  <2>2. \A u \in V!Take :
          /\ (u = t => take'[u].state = "stopping") /\ (u # t => take'[u].state = take[u].state)
          /\ (take'[u].open <=> take[u].open) /\ (take'[u].dropped <=> take[u].dropped)
          /\ (take'[u].heard <=> take[u].heard)
    <3>1. \A u \in V!Take : LET f == Moved(take, t, "stopping") IN
            /\ (u = t => f[u].state = "stopping") /\ (u # t => f[u].state = take[u].state)
            /\ (f[u].open <=> take[u].open) /\ (f[u].dropped <=> take[u].dropped)
            /\ (f[u].heard <=> take[u].heard)
      BY <1>1, TakeMoves, TakeStates
    <3>2. take' = Moved(take, t, "stopping")
      BY <2>1
    <3> QED BY <3>1, <3>2
  <2> QED BY <1>1, <1>3, <2>1, <2>2 DEF V!References
<1>11. ASSUME NEW t \in V!Take, V!Stopped(t) PROVE V!References'
  <2>1. /\ take[t].state = "stopping" /\ ~button' /\ stream' = 0
        /\ UNCHANGED <<recorder, cancelled, mounted, late>> /\ take' = V!Released(V!Over(t))
    BY <1>11 DEF V!Stopped, V!AfterStop
  <2> DEFINE f == Moved(take, t, "over")
             g == Judged(f, t)
  <2>2. f \in Takes
    BY <1>1, TakesStay, TakeMoves, TakeStates
  <2>3. \A u \in V!Take :
          /\ (u = t => f[u].state = "over") /\ (u # t => f[u].state = take[u].state)
          /\ (f[u].open <=> take[u].open) /\ (f[u].dropped <=> take[u].dropped) /\ (f[u].heard <=> take[u].heard)
    BY <1>1, TakesStay, TakeMoves, TakeStates
  <2>4. V!Over(t) = g
    BY <1>1, TakeHelpers
  <2> HIDE DEF f
  <2>6. /\ g \in Takes
        /\ \A u \in V!Take :
             /\ (u = t => g[u].state = "over") /\ (u # t => g[u].state = take[u].state)
             /\ (u = t => (g[u].heard <=> ~cancelled)) /\ (u # t => (g[u].heard <=> take[u].heard))
             /\ (g[u].open <=> take[u].open) /\ (g[u].dropped <=> take[u].dropped)
    <3>1. g = Judged(f, t)
      OBVIOUS
    <3> HIDE DEF g
    <3>2. Judged(f, t) \in Takes
      BY <2>2, TakesStay
    <3>3. \A u \in V!Take :
            /\ Judged(f, t)[u].state = f[u].state
            /\ (Judged(f, t)[u].open <=> f[u].open)
            /\ (Judged(f, t)[u].dropped <=> f[u].dropped)
            /\ (u = t => (Judged(f, t)[u].heard <=> ~cancelled))
            /\ (u # t => (Judged(f, t)[u].heard <=> f[u].heard))
      BY <2>2, TakeIsHeard
    <3> QED BY <2>3, <3>1, <3>2, <3>3
  <2> HIDE DEF g
  <2>7. take' = V!Released(g)
    BY <2>1, <2>4
  <2>8. \A u \in V!Take :
          /\ (u = t => take'[u].state = "over") /\ (u # t => take'[u].state = take[u].state) /\ ~take'[u].open
          /\ (u = t => (take'[u].heard <=> ~cancelled)) /\ (u # t => (take'[u].heard <=> take[u].heard)) /\ (take'[u].dropped <=> take[u].dropped)
    <3>1. \A u \in V!Take : g[u].open => stream = u
      BY <1>3, <2>6 DEF V!References
    <3>2. \A u \in V!Take : /\ ~V!Released(g)[u].open
                            /\ V!Released(g)[u].state = g[u].state
                            /\ (V!Released(g)[u].dropped <=> g[u].dropped)
                            /\ (V!Released(g)[u].heard <=> g[u].heard)
      BY <1>1, <2>6, <3>1, VoiceReleases
    <3> QED BY <2>6, <2>7, <3>2
  <2>9. \A u \in V!Take : u # t => ~V!UnderWay(u)
    BY <1>3, <2>1 DEF V!References
  <2>10. take[t].dropped => cancelled
    BY <1>3, <2>1 DEF V!References
  <2> QED BY <1>1, <1>3, <2>1, <2>8, <2>9, <2>10 DEF V!References
<1>12. CASE UNCHANGED V!vars
  BY <1>3, <1>12 DEF V!vars, V!References
<1>13. ~(\E t \in V!Take : V!GrantInVain(t))
  BY DEF V!GrantInVain
<1> QED BY <1>4, <1>5, <1>6, <1>7, <1>8, <1>9, <1>10, <1>11, <1>12, <1>13 DEF V!Next

LEMMA VoiceInit == V!Init => V!VoiceInv
<1> SUFFICES ASSUME V!Init PROVE V!VoiceInv
  OBVIOUS
<1>1. 0 \notin V!Take
  BY DEF V!Take
<1> QED BY <1>1 DEF V!Init, V!VoiceInv, V!TypeOK, V!References, V!Fresh, V!In, V!On, V!UnderWay

LEMMA VoiceSuffices == V!VoiceInv => V!VoiceKept
<1> SUFFICES ASSUME V!VoiceInv, ~muddled PROVE V!MicrophoneShown /\ V!CancelledUnheard
  BY DEF V!VoiceKept
<1>1. V!TypeOK /\ V!References /\ 0 \notin V!Take
  BY DEF V!VoiceInv, V!Take
<1> QED BY <1>1 DEF V!References, V!MicrophoneShown, V!CancelledUnheard, V!TypeOK

(***************************************************************************)
(* Documents.                                                              *)
(***************************************************************************)

LineState == {D!Unmade, [state |-> "deleted"]}
        \cup [state : {"there"}, action : D!Eligible \cup {"pending", "skipped"}, tried : BOOLEAN]

LEMMA DocumentJobs ==
    /\ D!Idle \in D!Job
    /\ \A pc \in {"override", "ask", "replace", "insert", "lines"} : [pc |-> pc] \in D!Job
    /\ \A l \in D!Id : [pc |-> "review", line |-> l] \in D!Job
    /\ \A pc \in {"apply", "end"} : \A t \in SUBSET D!Id : \A w \in D!Written :
          [pc |-> pc, todo |-> t, wrote |-> w] \in D!Job
    /\ "nothing" \in D!Written
  BY DEF D!Job, D!Idle, D!Written

LEMMA DocumentJobFields ==
    \A j \in D!Job :
        /\ j.pc = "review" => j.line \in D!Id
        /\ j.pc \in {"apply", "end"} =>
              j \in [pc : {"apply", "end"}, todo : SUBSET D!Id, wrote : D!Written]
  BY DEF D!Job, D!Idle

LEMMA DocumentGoes ==
    ASSUME session \in [Run -> D!Job], NEW r \in Run, NEW j \in D!Job, session' = [session EXCEPT ![r] = j]
    PROVE  /\ session' \in [Run -> D!Job]
           /\ session'[r] = j /\ \A q \in Run : q # r => session'[q] = session[q]
  OBVIOUS

\* What becomes of the lines.
LEMMA LineRows ==
    ASSUME NEW a \in D!Eligible \cup {"pending", "skipped"}, NEW t \in BOOLEAN
    PROVE  [state |-> "there", action |-> a, tried |-> t] \in LineState
  BY DEF LineState

LEMMA LineThere ==
    ASSUME line \in [D!Id -> LineState], NEW l \in D!Lines
    PROVE  /\ l \in D!Id /\ line[l].state = "there"
           /\ line[l] \in [state : {"there"}, action : D!Eligible \cup {"pending", "skipped"},
                           tried : BOOLEAN]
  BY DEF D!Lines, LineState, D!Unmade

\* An application has tried a line.
LEMMA LineTried ==
    ASSUME line \in [D!Id -> LineState], NEW l \in D!Lines, line' = [line EXCEPT ![l].tried = TRUE]
    PROVE  /\ line' \in [D!Id -> LineState] /\ D!Lines' = D!Lines
           /\ D!Tried(l)' /\ \A k \in D!Lines : k # l => (D!Tried(k)' <=> D!Tried(k))
<1>1. l \in D!Id /\ line[l].state = "there"
      /\ line[l] \in [state : {"there"}, action : D!Eligible \cup {"pending", "skipped"}, tried : BOOLEAN]
  BY LineThere
<1>2. PICK x : x = [line[l] EXCEPT !.tried = TRUE]
  OBVIOUS
<1>3. x \in LineState /\ x.state = "there" /\ x.tried
  BY <1>1, <1>2 DEF LineState
<1>4. line' = [line EXCEPT ![l] = x]
  BY <1>2
<1>5. line' \in [D!Id -> LineState] /\ line'[l] = x /\ \A k \in D!Id : k # l => line'[k] = line[k]
  BY <1>1, <1>3, <1>4
<1>6. D!Lines' = D!Lines
  BY <1>1, <1>3, <1>5 DEF D!Lines
<1>7. D!Tried(l)'
  BY <1>3, <1>5 DEF D!Tried
<1>8. \A k \in D!Lines : k # l => (D!Tried(k)' <=> D!Tried(k))
  BY <1>5 DEF D!Lines, D!Tried
<1> QED BY <1>5, <1>6, <1>7, <1>8

\* A person has written a line.
LEMMA LineReviewed ==
    ASSUME line \in [D!Id -> LineState], NEW l \in D!Lines, NEW a \in D!Eligible \cup {"pending", "skipped"},
           line' = [line EXCEPT ![l].action = a]
    PROVE  line' \in [D!Id -> LineState]
<1>1. l \in D!Id
      /\ line[l] \in [state : {"there"}, action : D!Eligible \cup {"pending", "skipped"}, tried : BOOLEAN]
  BY LineThere
<1>2. PICK x : x = [line[l] EXCEPT !.action = a]
  OBVIOUS
<1>3. x \in LineState
  BY <1>1, <1>2 DEF LineState
<1>4. line' = [line EXCEPT ![l] = x]
  BY <1>2
<1> QED BY <1>1, <1>3, <1>4

DocumentTypes ==
    /\ document \in {"classified", "applying", "applied"}
    /\ line \in [D!Id -> LineState] /\ session \in [Run -> D!Job]
    /\ commits \in Nat /\ reopened \in BOOLEAN /\ gaveBack \in BOOLEAN /\ behind \in BOOLEAN

LEMMA DocumentTypesOK == D!TypeOK <=> DocumentTypes
  BY DEF D!TypeOK, DocumentTypes, LineState

LEMMA DocumentTypesNext == D!TypeOK' <=> DocumentTypes'
  BY DEF D!TypeOK, DocumentTypes, LineState

\* A job that neither holds the claim nor wants it.
QuietPlaces == {"idle", "override", "ask", "replace", "insert", "review"}

\* A request that holds nothing goes elsewhere, and the lines change only with a note.
LEMMA DocumentApart ==
    ASSUME DocumentTypes, D!OneClaim, ~gaveBack => D!WroteOnce, ~behind => D!NoneForgotten,
           NEW r \in Run, NEW j \in D!Job, session' = [session EXCEPT ![r] = j],
           session[r].pc \in QuietPlaces, j.pc \in QuietPlaces,
           UNCHANGED <<document, commits, gaveBack>>,
           \/ UNCHANGED <<line, behind>>
           \/ behind' = (behind \/ D!Applying \/ document = "applied")
    PROVE  D!OneClaim' /\ (~gaveBack' => D!WroteOnce') /\ (~behind' => D!NoneForgotten')
<1> USE DEF D!At, D!Writes, D!Holds
<1>1. /\ session' \in [Run -> D!Job]
      /\ session'[r] = j /\ \A q \in Run : q # r => session'[q] = session[q]
  BY DocumentGoes DEF DocumentTypes
<1>2. D!OneClaim' /\ (~gaveBack' => D!WroteOnce')
  BY <1>1 DEF D!OneClaim, D!WroteOnce, QuietPlaces
<1>3. ASSUME ~behind' PROVE D!NoneForgotten'
  <2>1. ~behind
    BY <1>3
  <2>2. CASE UNCHANGED line
    <3>1. D!Lines' = D!Lines /\ \A l \in D!Lines : D!Tried(l)' <=> D!Tried(l)
      BY <2>2 DEF D!Lines, D!Tried
    <3> QED BY <1>1, <2>1, <3>1 DEF D!NoneForgotten, QuietPlaces
  <2>3. CASE ~D!Applying /\ document # "applied"
    <3>1. \A q \in Run : ~D!Writes(q)
      BY <2>3 DEF D!Applying
    <3>2. \A q \in Run : ~D!Writes(q)' /\ session'[q].pc # "end"
      BY <1>1, <3>1 DEF QuietPlaces
    <3> QED BY <2>3, <3>2 DEF D!NoneForgotten
  <2> QED BY <1>3, <2>2, <2>3
<1> QED BY <1>2, <1>3

\* The lines after each action are lines.
LEMMA DocumentLines ==
    ASSUME DocumentTypes, NEW s \in Run, D!DeleteLines(s) \/ D!InsertLines(s) \/ D!Review(s) \/ D!ApplyLine(s)
    PROVE  line' \in [D!Id -> LineState]
<1> USE DEF DocumentTypes
<1>1. CASE D!DeleteLines(s)
  BY <1>1 DEF D!DeleteLines, LineState
<1>2. CASE D!InsertLines(s)
  <2>1. PICK l \in D!Id, a \in {"pending", "matched", "new_product"} :
          line' = [line EXCEPT ![l] = [state |-> "there", action |-> a, tried |-> FALSE]]
    BY <1>2 DEF D!InsertLines
  <2>2. [state |-> "there", action |-> a, tried |-> FALSE] \in LineState
    BY LineRows DEF D!Eligible
  <2> QED BY <2>1, <2>2
<1>3. CASE D!Review(s)
  BY <1>3, LineReviewed DEF D!Review
<1>4. CASE D!ApplyLine(s)
  BY <1>4, LineTried DEF D!ApplyLine
<1> QED BY <1>1, <1>2, <1>3, <1>4

\* An application that has tried a line.
LEMMA DocumentApplies ==
    ASSUME DocumentTypes, NEW s \in Run, D!ApplyLine(s)
    PROVE  \E l \in session[s].todo, w \in D!Written, j \in D!Job :
              /\ session' = [session EXCEPT ![s] = j]
              /\ l \in D!Id /\ session[s].todo \in SUBSET D!Id /\ session[s].wrote \in D!Written
              /\ j.pc = IF session[s].todo = {l} THEN "end" ELSE "apply"
              /\ j.todo = session[s].todo \ {l}
              /\ j.wrote = D!Sum(session[s].wrote, w) /\ j.wrote \in D!Written
              /\ commits' = commits + (IF session[s].wrote = "nothing" /\ w # "nothing" THEN 1 ELSE 0)
              /\ line' = IF l \in D!Lines THEN [line EXCEPT ![l].tried = TRUE] ELSE line
<1>1. session[s] \in [pc : {"apply", "end"}, todo : SUBSET D!Id, wrote : D!Written]
  BY DocumentJobFields DEF D!ApplyLine, D!At, DocumentTypes
<1>2. PICK l \in session[s].todo, w \in D!Written :
        /\ session' = [session EXCEPT ![s].todo = @ \ {l}, ![s].wrote = D!Sum(@, w),
                                      ![s].pc = IF session[s].todo = {l} THEN "end" ELSE "apply"]
        /\ commits' = commits + (IF session[s].wrote = "nothing" /\ w # "nothing" THEN 1 ELSE 0)
        /\ line' = IF l \in D!Lines THEN [line EXCEPT ![l].tried = TRUE] ELSE line
  BY DEF D!ApplyLine
<1>3. PICK pc : pc = IF session[s].todo = {l} THEN "end" ELSE "apply"
  OBVIOUS
<1>4. PICK t, v : t = session[s].todo \ {l} /\ v = D!Sum(session[s].wrote, w)
  OBVIOUS
<1>5. PICK j : j = [session[s] EXCEPT !.todo = t, !.wrote = v, !.pc = pc]
  OBVIOUS
<1>6. /\ j \in [pc : {"apply", "end"}, todo : SUBSET D!Id, wrote : D!Written]
      /\ j.pc = pc /\ j.todo = t /\ j.wrote = v
  <2>1. v \in D!Written
    BY <1>1, <1>4 DEF D!Sum, D!Written
  <2> QED BY <1>1, <1>3, <1>4, <1>5, <2>1
<1>7. session' = [session EXCEPT ![s] = j]
  BY <1>2, <1>3, <1>4, <1>5 DEF DocumentTypes
<1>8. /\ j \in D!Job /\ j.wrote = D!Sum(session[s].wrote, w) /\ j.wrote \in D!Written
      /\ j.todo = session[s].todo \ {l}
  BY <1>4, <1>6 DEF D!Job
<1> QED BY <1>1, <1>2, <1>3, <1>6, <1>7, <1>8

LEMMA DocumentType == D!TypeOK /\ [D!Next]_(D!vars) => D!TypeOK'
<1> SUFFICES ASSUME DocumentTypes, [D!Next]_(D!vars) PROVE DocumentTypes'
  BY DocumentTypesOK, DocumentTypesNext
<1> USE DEF DocumentTypes
<1>1. ASSUME NEW s \in Run,
             D!StartExtract(s) \/ D!Override(s) \/ D!Answer(s) \/ D!StartReview(s) \/ D!Claim(s) \/ D!Die(s)
      PROVE  DocumentTypes'
  <2>1. \E j \in D!Job : session' = [session EXCEPT ![s] = j]
    BY <1>1, DocumentJobs DEF D!StartExtract, D!Override, D!Answer, D!StartReview, D!Claim, D!Die,
       D!Go, D!Lines
  <2>2. /\ document' \in {"classified", "applying", "applied"} /\ reopened' \in BOOLEAN
        /\ UNCHANGED <<line, commits, gaveBack, behind>>
    BY <1>1 DEF D!StartExtract, D!Override, D!Answer, D!StartReview, D!Claim, D!Die
  <2> QED BY <2>1, <2>2, DocumentGoes
<1>2. ASSUME NEW s \in Run, D!DeleteLines(s) \/ D!InsertLines(s) \/ D!Review(s) PROVE DocumentTypes'
  <2>1. \E j \in D!Job : session' = [session EXCEPT ![s] = j]
    BY <1>2, DocumentJobs DEF D!DeleteLines, D!InsertLines, D!Review, D!Go
  <2>2. UNCHANGED <<document, commits, reopened, gaveBack>> /\ behind' \in BOOLEAN
    BY <1>2 DEF D!DeleteLines, D!InsertLines, D!Review
  <2> QED BY <1>2, <2>1, <2>2, DocumentGoes, DocumentLines
<1>3. ASSUME NEW s \in Run, D!ApplyLine(s) PROVE DocumentTypes'
  <2>1. session' \in [Run -> D!Job] /\ commits' \in Nat
    BY <1>3, DocumentApplies, DocumentGoes
  <2> QED BY <1>3, <2>1, DocumentLines DEF D!ApplyLine
<1>4. ASSUME NEW s \in Run, D!ReadLines(s) PROVE DocumentTypes'
  <2>1. {l \in D!Lines : line[l].action \in D!Eligible} \in SUBSET D!Id
    BY DEF D!Lines
  <2>2. \E j \in D!Job : session' = [session EXCEPT ![s] = j]
    BY <1>4, <2>1, DocumentJobs DEF D!ReadLines, D!Go
  <2> QED BY <1>4, <2>2, DocumentGoes DEF D!ReadLines
<1>5. ASSUME NEW s \in Run, D!EndApply(s) PROVE DocumentTypes'
  <2>1. \E j \in D!Job : session' = [session EXCEPT ![s] = j]
    BY <1>5, DocumentJobs DEF D!EndApply, D!Go
  <2>2. /\ document' \in {"classified", "applying", "applied"} /\ gaveBack' \in BOOLEAN
        /\ UNCHANGED <<line, commits, reopened, behind>>
    BY <1>5 DEF D!EndApply, D!EndStatus
  <2> QED BY <2>1, <2>2, DocumentGoes
<1>6. CASE UNCHANGED D!vars
  BY <1>6 DEF D!vars
<1> QED BY <1>1, <1>2, <1>3, <1>4, <1>5, <1>6 DEF D!Next

\* As long as no extraction writes the status over a claim, one request applies.
LEMMA DocumentStep == D!DocumentInv /\ [D!Next]_(D!vars) => D!DocumentInv'
<1> SUFFICES ASSUME D!DocumentInv, [D!Next]_(D!vars), ~reopened'
             PROVE  D!OneClaim' /\ (~gaveBack' => D!WroteOnce') /\ (~behind' => D!NoneForgotten')
  BY DocumentType DEF D!DocumentInv
<1> USE DEF D!At, D!Writes, D!Holds
<1>1. DocumentTypes
  BY DocumentTypesOK DEF D!DocumentInv
<1>2. ~reopened
  BY <1>1 DEF DocumentTypes, D!Next, D!vars, D!StartExtract, D!Override, D!Answer, D!DeleteLines,
     D!InsertLines, D!StartReview, D!Review, D!Claim, D!ReadLines, D!ApplyLine, D!EndApply, D!Die
<1>3. D!OneClaim /\ (~gaveBack => D!WroteOnce) /\ (~behind => D!NoneForgotten)
  BY <1>2 DEF D!DocumentInv
<1>4. ASSUME NEW s \in Run,
             D!StartExtract(s) \/ D!Override(s) \/ D!Answer(s) \/ D!DeleteLines(s) \/ D!InsertLines(s)
             \/ D!StartReview(s) \/ D!Review(s)
      PROVE  D!OneClaim' /\ (~gaveBack' => D!WroteOnce') /\ (~behind' => D!NoneForgotten')
  <2>1. \E j \in D!Job : session' = [session EXCEPT ![s] = j] /\ j.pc \in QuietPlaces
    BY <1>1, <1>4, DocumentJobs DEF D!StartExtract, D!Override, D!Answer, D!DeleteLines, D!InsertLines,
       D!StartReview, D!Review, D!Go, D!Lines, D!Idle, QuietPlaces
  <2>2. session[s].pc \in QuietPlaces
    BY <1>4 DEF D!StartExtract, D!Override, D!Answer, D!DeleteLines, D!InsertLines,
       D!StartReview, D!Review, QuietPlaces
  <2>3. UNCHANGED <<document, commits, gaveBack>>
    <3>1. D!Override(s) => document = "classified"
      BY <1>2 DEF D!Override
    <3> QED BY <1>4, <3>1 DEF D!StartExtract, D!Override, D!Answer, D!DeleteLines, D!InsertLines,
       D!StartReview, D!Review
  <2>4. \/ UNCHANGED <<line, behind>>
        \/ behind' = (behind \/ D!Applying \/ document = "applied")
    BY <1>4 DEF D!StartExtract, D!Override, D!Answer, D!DeleteLines, D!InsertLines,
       D!StartReview, D!Review
  <2> QED BY <1>1, <1>3, <2>1, <2>2, <2>3, <2>4, DocumentApart
<1>5. ASSUME NEW s \in Run, D!Claim(s)
      PROVE  D!OneClaim' /\ (~gaveBack' => D!WroteOnce') /\ (~behind' => D!NoneForgotten')
  <2>1. /\ document = "classified" /\ document' = "applying" /\ UNCHANGED <<line, commits, behind>>
        /\ D!Lines' = D!Lines /\ \A q \in Run : ~D!Holds(q)
    BY <1>3, <1>5 DEF D!Claim, D!Claimable, D!OneClaim, D!Lines
  <2>2. session'[s].pc = "lines" /\ \A q \in Run : q # s => session'[q] = session[q]
    BY <1>1, <1>5, DocumentJobs, DocumentGoes DEF D!Claim, D!Go, DocumentTypes
  <2>3. ~gaveBack => commits = 0 /\ D!WroteOnce
    BY <1>3, <2>1 DEF D!WroteOnce
  <2>4. D!OneClaim' /\ gaveBack' = gaveBack
    BY <1>3, <1>5, <2>1, <2>2 DEF D!OneClaim, D!Claim
  <2>5. ~gaveBack' => D!WroteOnce'
    BY <2>1, <2>2, <2>3, <2>4 DEF D!WroteOnce
  <2> QED BY <1>3, <2>1, <2>2, <2>4, <2>5 DEF D!NoneForgotten
<1>6. ASSUME NEW s \in Run, D!ReadLines(s)
      PROVE  D!OneClaim' /\ (~gaveBack' => D!WroteOnce') /\ (~behind' => D!NoneForgotten')
  <2> DEFINE todo == {l \in D!Lines : line[l].action \in D!Eligible}
  <2>1. /\ document = "applying" /\ UNCHANGED <<line, commits, gaveBack, behind>>
        /\ ~gaveBack => commits = 0 /\ D!WroteOnce
        /\ gaveBack => commits > 0
        /\ D!Lines' = D!Lines /\ \A q \in Run : q # s => ~D!Holds(q)
    BY <1>3, <1>6 DEF D!ReadLines, D!OneClaim, D!WroteOnce, D!Lines
  <2>2. \A l \in D!Lines : D!Tried(l)' \/ l \in todo
    BY <2>1 DEF D!Tried
  <2>3. todo \in SUBSET D!Id
    BY DEF D!Lines
  <2>4. CASE D!Go(s, [pc |-> "apply", todo |-> todo, wrote |-> "nothing"]) /\ UNCHANGED document
    <3>1. /\ session'[s] = [pc |-> "apply", todo |-> todo, wrote |-> "nothing"]
          /\ \A q \in Run : q # s => session'[q] = session[q]
      BY <1>1, <2>3, <2>4, DocumentJobs, DocumentGoes DEF D!Go, DocumentTypes
    <3> HIDE DEF todo
    <3>2. session'[s].pc = "apply" /\ session'[s].todo = todo /\ session'[s].wrote = "nothing"
      BY <3>1
    <3>3. D!OneClaim'
      BY <2>1, <2>4, <3>1, <3>2 DEF D!OneClaim
    <3>4. ~gaveBack' => D!WroteOnce'
      BY <2>1, <2>4, <3>1, <3>2 DEF D!WroteOnce
    <3> QED BY <2>1, <2>2, <2>4, <3>1, <3>2, <3>3, <3>4 DEF D!NoneForgotten
  <2>5. CASE document' = "classified" /\ D!Go(s, D!Idle)
    <3>1. session'[s].pc = "idle" /\ \A q \in Run : q # s => session'[q] = session[q]
      BY <1>1, <2>5, DocumentJobs, DocumentGoes DEF D!Go, D!Idle, DocumentTypes
    <3> QED BY <2>1, <2>5, <3>1 DEF D!OneClaim, D!WroteOnce, D!NoneForgotten
  <2> QED BY <1>6, <2>4, <2>5 DEF D!ReadLines
<1>7. ASSUME NEW s \in Run, D!ApplyLine(s)
      PROVE  D!OneClaim' /\ (~gaveBack' => D!WroteOnce') /\ (~behind' => D!NoneForgotten')
  <2>1. PICK l \in session[s].todo, w \in D!Written, j \in D!Job :
              /\ session' = [session EXCEPT ![s] = j]
              /\ l \in D!Id /\ session[s].todo \in SUBSET D!Id /\ session[s].wrote \in D!Written
              /\ j.pc = IF session[s].todo = {l} THEN "end" ELSE "apply"
              /\ j.todo = session[s].todo \ {l}
              /\ j.wrote = D!Sum(session[s].wrote, w) /\ j.wrote \in D!Written
              /\ commits' = commits + (IF session[s].wrote = "nothing" /\ w # "nothing" THEN 1 ELSE 0)
              /\ line' = IF l \in D!Lines THEN [line EXCEPT ![l].tried = TRUE] ELSE line
    BY <1>1, <1>7, DocumentApplies
  <2>2. session'[s] = j /\ \A q \in Run : q # s => session'[q] = session[q]
    BY <1>1, <2>1, DocumentGoes DEF DocumentTypes
  <2>3. /\ session[s].pc = "apply" /\ document = "applying"
        /\ UNCHANGED <<document, gaveBack, behind>> /\ \A q \in Run : q # s => ~D!Holds(q)
        /\ session[s].wrote # "nothing" \/ gaveBack => commits > 0
        /\ ~gaveBack => commits = IF session[s].wrote = "nothing" THEN 0 ELSE 1
    BY <1>3, <1>7 DEF D!ApplyLine, D!OneClaim, D!WroteOnce
  <2>4. j.pc \in {"apply", "end"} /\ (j.pc = "end" => j.todo = {})
    BY <2>1
  <2>5. /\ j.wrote # "nothing" \/ gaveBack => commits' > 0
        /\ ~gaveBack => commits' = IF j.wrote = "nothing" THEN 0 ELSE 1
    <3>1. j.wrote = "nothing" <=> session[s].wrote = "nothing" /\ w = "nothing"
      BY <2>1 DEF D!Sum, D!Written
    <3>2. commits \in Nat
      BY <1>1 DEF DocumentTypes
    <3> QED BY <2>1, <2>3, <3>1, <3>2
  <2>6. D!OneClaim' /\ (~gaveBack' => D!WroteOnce')
    <3>1. D!OneClaim'
      BY <2>2, <2>3, <2>4, <2>5 DEF D!OneClaim
    <3>2. ~gaveBack' => D!WroteOnce'
      BY <2>2, <2>3, <2>4, <2>5 DEF D!WroteOnce
    <3> QED BY <3>1, <3>2
  <2>7. ASSUME ~behind' PROVE D!NoneForgotten'
    <3>1. \A k \in D!Lines : D!Tried(k) \/ k \in session[s].todo
      BY <1>3, <2>3, <2>7 DEF D!NoneForgotten
    <3>2. D!Lines' = D!Lines /\ \A k \in D!Lines : k # l => (D!Tried(k)' <=> D!Tried(k))
      BY <1>1, <2>1, LineTried DEF DocumentTypes, D!Lines, D!Tried
    <3>3. l \in D!Lines => D!Tried(l)'
      BY <1>1, <2>1, LineTried DEF DocumentTypes
    <3>4. \A k \in D!Lines' : D!Tried(k)' \/ k \in j.todo
      BY <2>1, <3>1, <3>2, <3>3
    <3> QED BY <2>2, <2>3, <2>4, <3>4 DEF D!NoneForgotten
  <2> QED BY <2>6, <2>7
<1>8. ASSUME NEW s \in Run, D!EndApply(s)
      PROVE  D!OneClaim' /\ (~gaveBack' => D!WroteOnce') /\ (~behind' => D!NoneForgotten')
  <2>1. /\ session[s].pc = "end" /\ document = "applying" /\ UNCHANGED <<line, commits, behind>>
        /\ \A q \in Run : q # s => ~D!Holds(q)
        /\ session[s].wrote # "nothing" \/ gaveBack => commits > 0
        /\ ~gaveBack => commits = IF session[s].wrote = "nothing" THEN 0 ELSE 1
        /\ D!Lines' = D!Lines /\ \A k \in D!Lines : D!Tried(k)' <=> D!Tried(k)
    BY <1>3, <1>8 DEF D!EndApply, D!OneClaim, D!WroteOnce, D!Lines, D!Tried
  <2>2. session'[s].pc = "idle" /\ \A q \in Run : q # s => session'[q] = session[q]
    BY <1>1, <1>8, DocumentJobs, DocumentGoes DEF D!EndApply, D!Go, D!Idle, DocumentTypes
  <2>3. /\ gaveBack' => gaveBack \/ session[s].wrote = "uncounted"
        /\ ~gaveBack' /\ document' = "classified" => ~gaveBack /\ session[s].wrote = "nothing"
        /\ document' = "applied" => session[s].wrote = "counted"
        /\ ~gaveBack' => ~gaveBack
    <3>1. session[s].wrote \in D!Written
      <4>1. session[s] \in D!Job
        BY <1>1 DEF DocumentTypes
      <4> QED BY <2>1, <4>1, DocumentJobFields
    <3> QED BY <1>8, <2>1, <3>1 DEF D!EndApply, D!EndStatus, D!Written
  <2>4. D!OneClaim' /\ (~gaveBack' => D!WroteOnce')
    <3>1. D!OneClaim'
      BY <2>1, <2>2, <2>3 DEF D!OneClaim
    <3>2. ~gaveBack' => D!WroteOnce'
      BY <1>3, <2>1, <2>2, <2>3 DEF D!WroteOnce
    <3> QED BY <3>1, <3>2
  <2>5. ASSUME ~behind' PROVE \A k \in D!Lines' : D!Tried(k)'
    BY <1>3, <2>1, <2>5 DEF D!NoneForgotten
  <2> QED BY <2>1, <2>2, <2>4, <2>5 DEF D!NoneForgotten
<1>9. ASSUME NEW s \in Run, D!Die(s)
      PROVE  D!OneClaim' /\ (~gaveBack' => D!WroteOnce') /\ (~behind' => D!NoneForgotten')
  <2>1. session'[s].pc = "idle" /\ \A q \in Run : q # s => session'[q] = session[q]
    BY <1>1, <1>9, DocumentJobs, DocumentGoes DEF D!Die, D!Go, D!Idle, DocumentTypes
  <2>2. /\ UNCHANGED <<document, line, commits, gaveBack, behind>>
        /\ D!Lines' = D!Lines /\ \A k \in D!Lines : D!Tried(k)' <=> D!Tried(k)
    BY <1>9 DEF D!Die, D!Lines, D!Tried
  <2> QED BY <1>3, <2>1, <2>2 DEF D!OneClaim, D!WroteOnce, D!NoneForgotten
<1>10. CASE UNCHANGED D!vars
  <2>1. D!Lines' = D!Lines /\ \A k \in D!Lines : D!Tried(k)' <=> D!Tried(k)
    BY <1>10 DEF D!vars, D!Lines, D!Tried
  <2> QED BY <1>3, <1>10, <2>1 DEF D!vars, D!OneClaim, D!WroteOnce, D!NoneForgotten
<1> QED BY <1>4, <1>5, <1>6, <1>7, <1>8, <1>9, <1>10 DEF D!Next

LEMMA DocumentInit == D!Init => D!DocumentInv
<1> SUFFICES ASSUME D!Init PROVE D!DocumentInv
  OBVIOUS
<1>1. DocumentTypes
  BY DocumentJobs DEF D!Init, DocumentTypes, LineState
<1>2. /\ document = "classified" /\ commits = 0 /\ ~gaveBack /\ \A s \in Run : session[s].pc = "idle"
  BY DEF D!Init, D!Idle
<1> QED BY <1>1, <1>2, DocumentTypesOK DEF D!DocumentInv, D!OneClaim, D!WroteOnce, D!NoneForgotten,
   D!Holds, D!Writes, D!At

LEMMA DocumentSuffices == D!DocumentInv => D!AppliedOnce /\ D!AppliedTells
<1> SUFFICES ASSUME D!DocumentInv PROVE D!AppliedOnce /\ D!AppliedTells
  OBVIOUS
<1>1. commits \in Nat
  BY DEF D!DocumentInv, D!TypeOK
<1> QED BY <1>1 DEF D!DocumentInv, D!OneClaim, D!WroteOnce, D!NoneForgotten, D!Tried, D!AppliedOnce,
   D!AppliedTells

(***************************************************************************)
(* Spreadsheets.                                                           *)
(***************************************************************************)

BatchStatus == {"pending", "processing", "review", "failed", "confirming", "confirmed", "gone"}
DraftStatus == {"none", "pending", "confirmed", "rejected", "merged", "deleted"}

LEMMA BatchJobs ==
    /\ B!Idle \in B!Job
    /\ \A pc \in {"clear", "processing", "create", "review", "delete", "read"} : [pc |-> pc] \in B!Job
    /\ \A pc \in {"book", "finish"} : \A t \in SUBSET B!Id : [pc |-> pc, todo |-> t] \in B!Job
    /\ \A t \in SUBSET B!Id : \A d \in B!Id : [pc |-> "mark", todo |-> t, at |-> d] \in B!Job
  BY DEF B!Job, B!Idle

LEMMA BatchJobFields ==
    \A j \in B!Job :
        /\ j.pc \in {"book", "mark"} => j.todo \in SUBSET B!Id
        /\ j.pc = "mark" => j.at \in B!Id
  BY DEF B!Job, B!Idle

LEMMA BatchGoes ==
    ASSUME clerk \in [Run -> B!Job], NEW c \in Run, NEW j \in B!Job, B!Go(c, j)
    PROVE  /\ clerk' \in [Run -> B!Job]
           /\ clerk'[c] = j /\ \A q \in Run : q # c => clerk'[q] = clerk[q]
  BY DEF B!Go

BatchTypes ==
    /\ batch \in BatchStatus /\ draft \in [B!Id -> DraftStatus] /\ booked \in [B!Id -> Nat]
    /\ causes \subseteq B!Causes /\ clerk \in [Run -> B!Job]

LEMMA CausesNamed == {"reopened", "restored", "unmarked", "remapped"} \subseteq B!Causes
  BY DEF B!Causes

LEMMA BatchTypesOK == (B!TypeOK <=> BatchTypes) /\ (B!TypeOK' <=> BatchTypes')
  BY DEF B!TypeOK, BatchTypes, BatchStatus, DraftStatus

LEMMA DraftMarked ==
    ASSUME BatchTypes, NEW d \in B!Id, NEW s \in DraftStatus, B!Mark(d, s)
    PROVE  /\ draft' \in [B!Id -> DraftStatus]
           /\ draft'[d] = s /\ \A e \in B!Id : e # d => draft'[e] = draft[e]
  BY DEF BatchTypes, B!Mark

\* What each action makes of the drafts.
LEMMA BatchDrafts ==
    ASSUME BatchTypes, NEW c \in Run,
           B!ClearDrafts(c) \/ B!CreateDrafts(c) \/ B!ReviewDraft(c) \/ B!DeleteDrafts(c)
           \/ B!DeleteBatch(c) \/ B!Book(c) \/ B!MarkDraft(c)
    PROVE  draft' \in [B!Id -> DraftStatus]
<1>1. CASE B!ClearDrafts(c)
  BY <1>1 DEF BatchTypes, DraftStatus, B!ClearDrafts
<1>2. CASE B!CreateDrafts(c)
  BY <1>2, DraftMarked DEF DraftStatus, B!CreateDrafts
<1>3. CASE B!ReviewDraft(c)
  BY <1>3, DraftMarked DEF DraftStatus, B!ReviewDraft, B!There
<1>4. CASE B!DeleteDrafts(c) \/ B!DeleteBatch(c)
  BY <1>4 DEF BatchTypes, DraftStatus, B!DeleteDrafts, B!DeleteBatch
<1>5. CASE B!Book(c)
  BY <1>5, DraftMarked DEF BatchTypes, DraftStatus, B!Book, B!There
<1>6. CASE B!MarkDraft(c)
  BY <1>6, DraftMarked DEF BatchTypes, DraftStatus, B!MarkDraft, B!There
<1> QED BY <1>1, <1>2, <1>3, <1>4, <1>5, <1>6

\* Where a request goes after a draft.
LEMMA BatchAfter ==
    ASSUME BatchTypes, NEW c \in Run, NEW d, B!After(c, d), clerk[c].pc \in {"book", "mark"}
    PROVE  \E j \in B!Job : /\ B!Go(c, j) /\ j.pc \in {"book", "finish"}
                            /\ j.todo = clerk[c].todo \ {d}
<1>1. clerk[c].todo \in SUBSET B!Id
  BY BatchJobFields DEF BatchTypes
<1>2. PICK t : t = clerk[c].todo \ {d}
  OBVIOUS
<1>3. t \in SUBSET B!Id /\ B!Go(c, [pc |-> IF t = {} THEN "finish" ELSE "book", todo |-> t])
  BY <1>1, <1>2 DEF B!After
<1>4. CASE t = {}
  BY <1>2, <1>3, <1>4, BatchJobs
<1>5. CASE t # {}
  BY <1>2, <1>3, <1>5, BatchJobs
<1> QED BY <1>4, <1>5

\* A booking.
LEMMA BatchBooks ==
    ASSUME BatchTypes, NEW c \in Run, B!Book(c)
    PROVE  \E d \in clerk[c].todo :
             /\ d \in B!Id
             /\ \/ /\ booked' = [booked EXCEPT ![d] = @ + 1] /\ UNCHANGED draft
                   /\ \E j \in B!Job : B!Go(c, j) /\ j.pc = "mark" /\ j.todo = clerk[c].todo /\ j.at = d
                \/ /\ IF d \in B!There THEN B!Mark(d, "rejected") ELSE UNCHANGED draft
                   /\ B!After(c, d)
                   /\ UNCHANGED booked
<1>1. clerk[c].pc = "book" /\ clerk[c].todo \in SUBSET B!Id
  BY BatchJobFields DEF BatchTypes, B!Book, B!At
<1>2. PICK d \in clerk[c].todo :
          \/ /\ booked' = [booked EXCEPT ![d] = @ + 1]
             /\ B!Go(c, [pc |-> "mark", todo |-> clerk[c].todo, at |-> d])
             /\ UNCHANGED draft
          \/ /\ IF d \in B!There THEN B!Mark(d, "rejected") ELSE UNCHANGED draft
             /\ B!After(c, d)
             /\ UNCHANGED booked
  BY DEF B!Book
<1>3. d \in B!Id
  BY <1>1
<1>4. [pc |-> "mark", todo |-> clerk[c].todo, at |-> d] \in B!Job
  BY <1>1, <1>3, BatchJobs
<1>5. CASE /\ booked' = [booked EXCEPT ![d] = @ + 1]
           /\ B!Go(c, [pc |-> "mark", todo |-> clerk[c].todo, at |-> d])
           /\ UNCHANGED draft
  BY <1>3, <1>4, <1>5
<1> QED BY <1>2, <1>3, <1>5

LEMMA BatchType == B!TypeOK /\ [B!Next]_(B!vars) => B!TypeOK'
<1> SUFFICES ASSUME BatchTypes, [B!Next]_(B!vars) PROVE BatchTypes'
  BY BatchTypesOK
<1>1. /\ batch \in BatchStatus /\ draft \in [B!Id -> DraftStatus] /\ booked \in [B!Id -> Nat]
      /\ causes \subseteq B!Causes /\ clerk \in [Run -> B!Job]
  BY DEF BatchTypes
<1>2. ASSUME NEW s \in {"processing", "review", "failed"}, B!Set(s)
      PROVE  batch' \in BatchStatus /\ causes' \subseteq B!Causes
  BY <1>1, <1>2, CausesNamed DEF B!Set, BatchStatus
<1>3. ASSUME NEW c \in Run, B!Mapping(c) PROVE BatchTypes'
  <2>1. \E j \in B!Job : B!Go(c, j)
    BY <1>3, BatchJobs DEF B!Mapping, B!StartMapping, B!ClearDrafts, B!SetProcessing, B!CreateDrafts,
       B!SetReview
  <2>2. batch' \in BatchStatus /\ causes' \subseteq B!Causes
    BY <1>1, <1>2, <1>3, CausesNamed DEF B!Mapping, B!StartMapping, B!ClearDrafts, B!SetProcessing, B!CreateDrafts,
       B!SetReview
  <2>3. draft' \in [B!Id -> DraftStatus] /\ UNCHANGED booked
    BY <1>1, <1>3, BatchDrafts DEF B!Mapping, B!StartMapping, B!ClearDrafts, B!SetProcessing,
       B!CreateDrafts, B!SetReview
  <2> QED BY <1>1, <2>1, <2>2, <2>3, BatchGoes DEF BatchTypes
<1>4. ASSUME NEW c \in Run, B!Desk(c) PROVE BatchTypes'
  <2>1. UNCHANGED clerk \/ \E j \in B!Job : B!Go(c, j)
    BY <1>4, BatchJobs DEF B!Desk, B!ReviewDraft, B!PatchStatus, B!DeleteDrafts, B!DeleteBatch
  <2>2. batch' \in BatchStatus /\ causes' \subseteq B!Causes
    <3>1. CASE B!PatchStatus(c)
      BY <1>2, <3>1 DEF B!PatchStatus
    <3>2. CASE B!ReviewDraft(c)
      BY <1>1, <3>2, CausesNamed DEF B!ReviewDraft
    <3>3. CASE B!DeleteDrafts(c) \/ B!DeleteBatch(c)
      BY <1>1, <3>3 DEF B!DeleteDrafts, B!DeleteBatch, BatchStatus
    <3> QED BY <1>4, <3>1, <3>2, <3>3 DEF B!Desk
  <2>3. draft' \in [B!Id -> DraftStatus] /\ UNCHANGED booked
    BY <1>1, <1>4, BatchDrafts DEF B!Desk, B!ReviewDraft, B!PatchStatus, B!DeleteDrafts, B!DeleteBatch
  <2> QED BY <1>1, <2>1, <2>2, <2>3, BatchGoes DEF BatchTypes
<1>5. ASSUME NEW c \in Run, B!Book(c) PROVE BatchTypes'
  <2>1. PICK d \in clerk[c].todo :
             /\ d \in B!Id
             /\ \/ /\ booked' = [booked EXCEPT ![d] = @ + 1]
                   /\ \E j \in B!Job : B!Go(c, j) /\ j.pc = "mark" /\ j.todo = clerk[c].todo /\ j.at = d
                \/ B!After(c, d) /\ UNCHANGED booked
    BY <1>5, BatchBooks
  <2>2. booked' \in [B!Id -> Nat]
    BY <1>1, <2>1
  <2>3. \E j \in B!Job : B!Go(c, j)
    BY <1>5, <2>1, BatchAfter DEF B!Book, B!At
  <2> QED BY <1>1, <1>5, <2>2, <2>3, BatchDrafts, BatchGoes DEF BatchTypes, B!Book
<1>6. ASSUME NEW c \in Run, B!MarkDraft(c) PROVE BatchTypes'
  <2>1. \E j \in B!Job : B!Go(c, j)
    BY <1>6, BatchAfter DEF B!MarkDraft, B!At
  <2>2. causes' \subseteq B!Causes /\ UNCHANGED <<batch, booked>>
    BY <1>1, <1>6, CausesNamed DEF B!MarkDraft
  <2> QED BY <1>1, <1>6, <2>1, <2>2, BatchDrafts, BatchGoes DEF BatchTypes
<1>7. ASSUME NEW c \in Run, B!Claim(c) \/ B!ReadDrafts(c) \/ B!Finish(c) \/ B!Die(c) PROVE BatchTypes'
  <2>1. \E j \in B!Job : B!Go(c, j)
    <3>1. {d \in B!There : B!Open(d)} \in SUBSET B!Id
      BY DEF B!There
    <3>2. B!ReadDrafts(c) => \E j \in B!Job : B!Go(c, j)
      BY <3>1, BatchJobs DEF B!ReadDrafts
    <3> QED BY <1>7, <3>2, BatchJobs DEF B!Claim, B!Finish, B!Die
  <2>2. /\ batch' \in BatchStatus /\ UNCHANGED <<draft, booked>>
        /\ causes' \subseteq B!Causes
    BY <1>1, <1>7, CausesNamed DEF B!Claim, B!ReadDrafts, B!Finish, B!Die, BatchStatus
  <2> QED BY <1>1, <2>1, <2>2, BatchGoes DEF BatchTypes
<1>8. CASE UNCHANGED B!vars
  BY <1>1, <1>8 DEF B!vars, BatchTypes
<1> QED BY <1>3, <1>4, <1>5, <1>6, <1>7, <1>8 DEF B!Next, B!Confirm

\* A request that has no hold on the batch leaves it and what is booked alone.
LEMMA BatchApart ==
    ASSUME BatchTypes, BatchTypes', B!OneConfirm, UNCHANGED booked,
           \A d \in B!Id : draft[d] # "none" => draft'[d] # "none",
           \A d \in B!Id : booked[d] > 0 /\ B!Open(d)' => B!Open(d),
           NEW c \in Run, \A q \in Run : q # c => clerk'[q] = clerk[q],
           clerk'[c] = clerk[c] \/ (~B!Holds(c) /\ ~B!Holds(c)'),
           batch' \in {batch, "gone"} \/ \A q \in Run : ~B!Holds(q)
    PROVE  B!OneConfirm'
<1>1. \A q \in Run : B!Holds(q)' => B!Holds(q) /\ clerk'[q] = clerk[q]
  BY DEF B!Holds
<1>2. \A q \in Run : B!Holds(q) => B!Holds(q)' /\ clerk'[q] = clerk[q]
  BY DEF B!Holds
<1>3. \A q, r \in Run : B!Holds(q)' /\ B!Holds(r)' => q = r
  BY <1>1 DEF B!OneConfirm
<1>4. \A q \in Run : B!Holds(q)' => batch' \in {"confirming", "gone"}
  BY <1>1 DEF B!OneConfirm
<1>5. \A d \in B!Id : B!Marks(d) => B!Marks(d)'
  BY <1>2 DEF B!Marks, B!Holds, B!At
<1>6. \A d \in B!Id : /\ booked'[d] <= 1
                      /\ booked'[d] > 0 => draft'[d] # "none" /\ (B!Open(d)' => B!Marks(d)')
  BY <1>5 DEF B!OneConfirm
<1>7. \A q \in Run : \A d \in B!Id :
          /\ B!At(q, "book")' /\ d \in clerk'[q].todo => booked'[d] = 0 /\ draft'[d] # "none"
          /\ B!At(q, "mark")' /\ d \in clerk'[q].todo /\ d # clerk'[q].at =>
                booked'[d] = 0 /\ draft'[d] # "none"
  <2> TAKE q \in Run
  <2>1. CASE B!Holds(q)'
    BY <1>1, <2>1 DEF B!OneConfirm, B!At
  <2>2. CASE ~B!Holds(q)'
    BY <2>2 DEF B!Holds, B!At
  <2> QED BY <2>1, <2>2
<1> QED BY <1>3, <1>4, <1>6, <1>7 DEF B!OneConfirm

\* As long as every booking is marked and nobody interferes, one request holds the batch.
LEMMA BatchHeld ==
    ASSUME B!BatchInv, [B!Next]_(B!vars), causes' = {}
    PROVE  causes = {} /\ B!OneConfirm'
<1>1. BatchTypes /\ BatchTypes'
  BY BatchType, BatchTypesOK DEF B!BatchInv
<1>2. causes = {}
  <2>1. causes \subseteq causes'
    BY DEF B!Next, B!vars, B!Mapping, B!Desk, B!Confirm, B!StartMapping, B!ClearDrafts, B!SetProcessing,
       B!CreateDrafts, B!SetReview, B!ReviewDraft, B!PatchStatus, B!DeleteDrafts, B!DeleteBatch,
       B!Claim, B!ReadDrafts, B!Book, B!MarkDraft, B!Finish, B!Die, B!Set
  <2> QED BY <2>1
<1>3. B!OneConfirm
  BY <1>2 DEF B!BatchInv
<1>4. clerk \in [Run -> B!Job]
  BY <1>1 DEF BatchTypes
<1>5. \A d \in B!Id : booked[d] \in Nat
  BY <1>1 DEF BatchTypes
\* A status written by id while nobody holds the batch.
<1>6. ASSUME NEW s, B!Set(s) PROVE \A q \in Run : ~B!Holds(q)
  BY <1>2, <1>6 DEF B!Set, B!Busy, B!Holds
<1>7. ASSUME NEW c \in Run, B!Mapping(c) PROVE B!OneConfirm'
  <2>1. clerk[c].pc \in {"idle", "clear", "processing", "create", "review"}
    BY <1>7 DEF B!Mapping, B!StartMapping, B!ClearDrafts, B!SetProcessing, B!CreateDrafts, B!SetReview,
       B!At
  <2>2. /\ clerk'[c].pc \in {"idle", "clear", "processing", "create", "review"}
        /\ \A q \in Run : q # c => clerk'[q] = clerk[q]
    BY <1>4, <1>7, BatchJobs, BatchGoes DEF B!Mapping, B!StartMapping, B!ClearDrafts, B!SetProcessing,
       B!CreateDrafts, B!SetReview, B!Idle
  <2>3. batch' \in {batch, "gone"} \/ \A q \in Run : ~B!Holds(q)
    BY <1>6, <1>7 DEF B!Mapping, B!StartMapping, B!ClearDrafts, B!SetProcessing, B!CreateDrafts,
       B!SetReview
  <2>4. /\ \A d \in B!Id : draft[d] # "none" => draft'[d] # "none"
        /\ \A d \in B!Id : booked[d] > 0 /\ B!Open(d)' => B!Open(d)
    <3>1. CASE B!ClearDrafts(c)
      BY <3>1 DEF B!ClearDrafts, B!Open
    <3>2. CASE B!CreateDrafts(c)
      <4>1. PICK e \in B!Id : draft[e] = "none" /\ B!Mark(e, "pending")
        BY <3>2 DEF B!CreateDrafts
      <4>2. draft'[e] = "pending" /\ \A d \in B!Id : d # e => draft'[d] = draft[d]
        BY <1>1, <4>1, DraftMarked DEF DraftStatus
      <4>3. ~(booked[e] > 0)
        BY <1>3, <4>1 DEF B!OneConfirm
      <4> QED BY <4>2, <4>3 DEF B!Open
    <3>3. CASE UNCHANGED draft
      BY <3>3 DEF B!Open
    <3> QED BY <1>7, <3>1, <3>2, <3>3 DEF B!Mapping, B!StartMapping, B!SetProcessing, B!SetReview
  <2>5. UNCHANGED booked
    BY <1>7 DEF B!Mapping, B!StartMapping, B!ClearDrafts, B!SetProcessing, B!CreateDrafts, B!SetReview
  <2>6. ~B!Holds(c) /\ ~B!Holds(c)'
    BY <2>1, <2>2 DEF B!Holds
  <2> QED BY <1>1, <1>3, <2>2, <2>3, <2>4, <2>5, <2>6, BatchApart
<1>8. ASSUME NEW c \in Run, B!Desk(c) PROVE B!OneConfirm'
  <2>1. clerk[c].pc \in {"idle", "delete"}
    BY <1>8 DEF B!Desk, B!ReviewDraft, B!PatchStatus, B!DeleteDrafts, B!DeleteBatch, B!At
  <2>2. /\ UNCHANGED clerk \/ clerk'[c].pc \in {"idle", "delete"}
        /\ \A q \in Run : q # c => clerk'[q] = clerk[q]
    BY <1>4, <1>8, BatchJobs, BatchGoes DEF B!Desk, B!ReviewDraft, B!PatchStatus, B!DeleteDrafts,
       B!DeleteBatch, B!Idle
  <2>3. batch' \in {batch, "gone"} \/ \A q \in Run : ~B!Holds(q)
    BY <1>6, <1>8 DEF B!Desk, B!ReviewDraft, B!PatchStatus, B!DeleteDrafts, B!DeleteBatch
  <2>4. /\ \A d \in B!Id : draft[d] # "none" => draft'[d] # "none"
        /\ \A d \in B!Id : booked[d] > 0 /\ B!Open(d)' => B!Open(d)
    <3>1. CASE B!ReviewDraft(c)
      <4>1. PICK e \in B!There, s \in {"pending", "confirmed", "rejected"} :
              B!Mark(e, s) /\ ~(booked[e] > 0 /\ s # "rejected")
        BY <3>1 DEF B!ReviewDraft
      <4>2. e \in B!Id /\ draft'[e] = s /\ \A d \in B!Id : d # e => draft'[d] = draft[d]
        BY <1>1, <4>1, DraftMarked DEF DraftStatus, B!There
      <4> QED BY <4>1, <4>2 DEF B!Open
    <3>2. CASE B!DeleteDrafts(c) \/ B!DeleteBatch(c)
      BY <3>2 DEF B!DeleteDrafts, B!DeleteBatch, B!Open
    <3>3. CASE UNCHANGED draft
      BY <3>3 DEF B!Open
    <3> QED BY <1>8, <3>1, <3>2, <3>3 DEF B!Desk, B!PatchStatus
  <2>5. UNCHANGED booked
    BY <1>8 DEF B!Desk, B!ReviewDraft, B!PatchStatus, B!DeleteDrafts, B!DeleteBatch
  <2>6. clerk'[c] = clerk[c] \/ (~B!Holds(c) /\ ~B!Holds(c)')
    BY <2>1, <2>2 DEF B!Holds
  <2> QED BY <1>1, <1>3, <2>2, <2>3, <2>4, <2>5, <2>6, BatchApart
<1>9. ASSUME NEW c \in Run, B!Claim(c) PROVE B!OneConfirm'
  <2>1. /\ batch' = "confirming" /\ UNCHANGED <<draft, booked>>
        /\ \A q \in Run : ~B!Holds(q)
    BY <1>3, <1>9 DEF B!Claim, B!Claimable, B!OneConfirm
  <2>2. clerk'[c].pc = "read" /\ \A q \in Run : q # c => clerk'[q] = clerk[q]
    BY <1>4, <1>9, BatchJobs, BatchGoes DEF B!Claim
  <2>3. \A d \in B!Id : ~B!Marks(d) /\ (B!Open(d)' <=> B!Open(d))
    BY <2>1 DEF B!Marks, B!Holds, B!At, B!Open
  <2> QED BY <1>3, <2>1, <2>2, <2>3 DEF B!OneConfirm, B!Holds, B!At
\* The request that holds the batch, and what it has left.
<1>10. ASSUME NEW c \in Run, B!Holds(c), \A q \in Run : q # c => clerk'[q] = clerk[q],
              batch' \in {batch, "gone"} \/ ~B!Holds(c)',
              \A d \in B!Id : /\ booked'[d] <= 1
                              /\ booked'[d] > 0 => draft'[d] # "none"
                              /\ booked'[d] > 0 /\ B!Open(d)' => clerk'[c].pc = "mark" /\ clerk'[c].at = d,
              \A d \in B!Id :
                  /\ clerk'[c].pc = "book" /\ d \in clerk'[c].todo => booked'[d] = 0 /\ draft'[d] # "none"
                  /\ clerk'[c].pc = "mark" /\ d \in clerk'[c].todo /\ d # clerk'[c].at =>
                        booked'[d] = 0 /\ draft'[d] # "none"
       PROVE  B!OneConfirm'
  <2>1. \A q \in Run : q # c => ~B!Holds(q) /\ ~B!Holds(q)'
    BY <1>3, <1>10 DEF B!OneConfirm, B!Holds
  <2>2. \A q \in Run : B!Holds(q)' => batch' \in {"confirming", "gone"}
    BY <1>3, <1>10, <2>1 DEF B!OneConfirm
  <2>3. \A d \in B!Id : clerk'[c].pc = "mark" /\ clerk'[c].at = d => B!Marks(d)'
    BY DEF B!Marks, B!At
  <2>4. \A q \in Run : \A d \in B!Id :
          /\ B!At(q, "book")' /\ d \in clerk'[q].todo => booked'[d] = 0 /\ draft'[d] # "none"
          /\ B!At(q, "mark")' /\ d \in clerk'[q].todo /\ d # clerk'[q].at =>
                booked'[d] = 0 /\ draft'[d] # "none"
    BY <1>10, <2>1 DEF B!Holds, B!At
  <2>5. \A q, r \in Run : B!Holds(q)' /\ B!Holds(r)' => q = r
    BY <2>1
  <2> QED BY <1>10, <2>2, <2>3, <2>4, <2>5 DEF B!OneConfirm
\* What is booked while the holder is not at a mark is not open.
<1>11. ASSUME NEW c \in Run, B!Holds(c)
       PROVE  \A d \in B!Id : booked[d] > 0 /\ B!Open(d) => clerk[c].pc = "mark" /\ clerk[c].at = d
  BY <1>3, <1>11 DEF B!OneConfirm, B!Marks, B!Holds, B!At
<1>12. ASSUME NEW c \in Run, B!ReadDrafts(c) PROVE B!OneConfirm'
  <2> DEFINE todo == {d \in B!There : B!Open(d)}
  <2>1. clerk[c].pc = "read" /\ B!Holds(c) /\ UNCHANGED <<batch, draft, booked>>
    BY <1>12 DEF B!ReadDrafts, B!Holds, B!At
  <2>2. /\ clerk'[c].pc \in {"finish", "book"} /\ clerk'[c].todo = todo
        /\ \A q \in Run : q # c => clerk'[q] = clerk[q]
    <3>1. todo \in SUBSET B!Id
      BY DEF B!There
    <3>2. B!Go(c, [pc |-> IF todo = {} THEN "finish" ELSE "book", todo |-> todo])
      BY <1>12 DEF B!ReadDrafts
    <3> HIDE DEF todo
    <3>3. PICK pc \in {"finish", "book"} : pc = IF todo = {} THEN "finish" ELSE "book"
      OBVIOUS
    <3> QED BY <1>4, <3>1, <3>2, <3>3, BatchJobs, BatchGoes
  <2>3. \A d \in B!Id : /\ booked[d] > 0 => ~B!Open(d)
                        /\ d \in todo => booked[d] = 0 /\ draft[d] # "none"
    BY <1>5, <1>11, <2>1 DEF B!There
  <2>4. \A d \in B!Id : booked[d] <= 1 /\ (booked[d] > 0 => draft[d] # "none") /\ (B!Open(d)' <=> B!Open(d))
    BY <1>3, <2>1 DEF B!OneConfirm, B!Open
  <2> HIDE DEF todo
  <2> QED BY <1>10, <2>1, <2>2, <2>3, <2>4
<1>13. ASSUME NEW c \in Run, B!Book(c) PROVE B!OneConfirm'
  <2>1. clerk[c].pc = "book" /\ B!Holds(c) /\ UNCHANGED <<batch, causes>>
    BY <1>13 DEF B!Book, B!Holds, B!At
  <2>2. \A d \in B!Id : /\ booked[d] > 0 => ~B!Open(d)
                        /\ d \in clerk[c].todo => booked[d] = 0 /\ draft[d] # "none"
                        /\ booked[d] <= 1 /\ (booked[d] > 0 => draft[d] # "none")
    BY <1>3, <1>11, <2>1 DEF B!OneConfirm, B!At
  <2>3. PICK d \in clerk[c].todo :
             /\ d \in B!Id
             /\ \/ /\ booked' = [booked EXCEPT ![d] = @ + 1] /\ UNCHANGED draft
                   /\ \E j \in B!Job : B!Go(c, j) /\ j.pc = "mark" /\ j.todo = clerk[c].todo /\ j.at = d
                \/ /\ IF d \in B!There THEN B!Mark(d, "rejected") ELSE UNCHANGED draft
                   /\ B!After(c, d)
                   /\ UNCHANGED booked
    BY <1>1, <1>13, BatchBooks
  <2>4. CASE /\ booked' = [booked EXCEPT ![d] = @ + 1] /\ UNCHANGED draft
             /\ \E j \in B!Job : B!Go(c, j) /\ j.pc = "mark" /\ j.todo = clerk[c].todo /\ j.at = d
    <3>1. /\ clerk'[c].pc = "mark" /\ clerk'[c].todo = clerk[c].todo /\ clerk'[c].at = d
          /\ \A q \in Run : q # c => clerk'[q] = clerk[q]
      BY <1>4, <2>4, BatchGoes
    <3>2. booked'[d] = 1 /\ \A e \in B!Id : e # d => booked'[e] = booked[e]
      BY <1>1, <2>2, <2>3, <2>4 DEF BatchTypes
    <3>3. \A e \in B!Id : B!Open(e)' <=> B!Open(e)
      BY <2>4 DEF B!Open
    <3>4. \A e \in B!Id : /\ booked'[e] <= 1
                          /\ booked'[e] > 0 => draft'[e] # "none"
                          /\ booked'[e] > 0 /\ B!Open(e)' => e = d
                          /\ e \in clerk[c].todo /\ e # d => booked'[e] = 0 /\ draft'[e] # "none"
      BY <2>2, <2>3, <2>4, <3>2, <3>3
    <3> QED BY <1>10, <2>1, <3>1, <3>4
  <2>5. CASE /\ IF d \in B!There THEN B!Mark(d, "rejected") ELSE UNCHANGED draft
             /\ B!After(c, d)
             /\ UNCHANGED booked
    <3>1. /\ clerk'[c].pc \in {"book", "finish"} /\ clerk'[c].todo = clerk[c].todo \ {d}
          /\ \A q \in Run : q # c => clerk'[q] = clerk[q]
      BY <1>1, <1>4, <2>1, <2>5, BatchAfter, BatchGoes
    <3>2. \A e \in B!Id : /\ draft[e] # "none" => draft'[e] # "none"
                          /\ B!Open(e)' => B!Open(e)
      <4>1. CASE d \in B!There /\ B!Mark(d, "rejected")
        <5>1. draft'[d] = "rejected" /\ \A e \in B!Id : e # d => draft'[e] = draft[e]
          BY <1>1, <2>3, <4>1, DraftMarked DEF DraftStatus
        <5> QED BY <5>1 DEF B!Open
      <4>2. CASE UNCHANGED draft
        BY <4>2 DEF B!Open
      <4> QED BY <2>5, <4>1, <4>2
    <3> QED BY <1>10, <2>1, <2>2, <2>5, <3>1, <3>2
  <2> QED BY <2>3, <2>4, <2>5
<1>14. ASSUME NEW c \in Run, B!MarkDraft(c) PROVE B!OneConfirm'
  <2> DEFINE d == clerk[c].at
  <2>1. /\ clerk[c].pc = "mark" /\ B!Holds(c) /\ UNCHANGED <<batch, booked>> /\ d \in B!Id
        /\ B!After(c, d) /\ d \in B!There /\ \E s \in {"merged", "rejected"} : B!Mark(d, s)
    BY <1>2, <1>4, <1>14, BatchJobFields DEF B!MarkDraft, B!Holds, B!At
  <2> HIDE DEF d
  <2>2. \A e \in B!Id : /\ booked[e] > 0 /\ B!Open(e) => e = d
                        /\ e \in clerk[c].todo /\ e # d => booked[e] = 0 /\ draft[e] # "none"
                        /\ booked[e] <= 1 /\ (booked[e] > 0 => draft[e] # "none")
    BY <1>3, <1>11, <2>1 DEF B!OneConfirm, B!At, d
  <2>3. draft'[d] \in {"merged", "rejected"} /\ \A e \in B!Id : e # d => draft'[e] = draft[e]
    BY <1>1, <2>1, DraftMarked DEF DraftStatus
  <2>4. /\ clerk'[c].pc \in {"book", "finish"} /\ clerk'[c].todo = clerk[c].todo \ {d}
        /\ \A q \in Run : q # c => clerk'[q] = clerk[q]
    BY <1>1, <1>4, <2>1, BatchAfter, BatchGoes
  <2>5. \A e \in B!Id : booked'[e] > 0 => ~B!Open(e)'
    BY <2>1, <2>2, <2>3 DEF B!Open
  <2>6. \A e \in B!Id : booked'[e] <= 1 /\ (booked'[e] > 0 => draft'[e] # "none")
    BY <2>1, <2>2, <2>3
  <2>7. \A e \in B!Id : e \in clerk'[c].todo => booked'[e] = 0 /\ draft'[e] # "none"
    BY <2>1, <2>2, <2>3, <2>4
  <2> QED BY <1>10, <2>1, <2>4, <2>5, <2>6, <2>7
<1>15. ASSUME NEW c \in Run, B!Finish(c) PROVE B!OneConfirm'
  <2>1. clerk[c].pc = "finish" /\ B!Holds(c) /\ UNCHANGED <<draft, booked>>
    BY <1>15 DEF B!Finish, B!Holds, B!At
  <2>2. clerk'[c].pc = "idle" /\ \A q \in Run : q # c => clerk'[q] = clerk[q]
    BY <1>4, <1>15, BatchJobs, BatchGoes DEF B!Finish, B!Idle
  <2>3. \A d \in B!Id : /\ booked[d] > 0 => ~B!Open(d)'
                        /\ booked[d] <= 1 /\ (booked[d] > 0 => draft[d] # "none")
    BY <1>3, <1>11, <2>1 DEF B!OneConfirm, B!Open
  <2> QED BY <1>10, <2>1, <2>2, <2>3 DEF B!Holds
<1>16. ASSUME NEW c \in Run, B!Die(c) PROVE B!OneConfirm'
  <2>1. /\ clerk[c].pc # "mark" /\ UNCHANGED <<batch, draft, booked>>
        /\ \A d \in B!Id : B!Open(d)' <=> B!Open(d)
    BY <1>16 DEF B!Die, B!At, B!Open
  <2>2. clerk'[c].pc = "idle" /\ \A q \in Run : q # c => clerk'[q] = clerk[q]
    BY <1>4, <1>16, BatchJobs, BatchGoes DEF B!Die, B!Idle
  <2>3. CASE B!Holds(c)
    <3>1. \A d \in B!Id : /\ booked[d] > 0 => ~B!Open(d)'
                          /\ booked[d] <= 1 /\ (booked[d] > 0 => draft[d] # "none")
      BY <1>3, <1>11, <2>1, <2>3 DEF B!OneConfirm
    <3> QED BY <1>10, <2>1, <2>2, <2>3, <3>1
  <2>4. CASE ~B!Holds(c)
    <3>1. ~B!Holds(c)'
      BY <2>2 DEF B!Holds
    <3> QED BY <1>1, <1>3, <2>1, <2>2, <2>4, <3>1, BatchApart
  <2> QED BY <2>3, <2>4
<1>17. CASE UNCHANGED B!vars
  BY <1>3, <1>17 DEF B!vars, B!OneConfirm, B!Holds, B!Marks, B!Open, B!At
<1> QED BY <1>2, <1>7, <1>8, <1>9, <1>12, <1>13, <1>14, <1>15, <1>16, <1>17 DEF B!Next, B!Confirm

\* And the row has one draft that was booked or can be.
LEMMA BatchOne ==
    ASSUME B!BatchInv, [B!Next]_(B!vars), causes' = {}
    PROVE  B!OneDraft'
<1>1. causes = {} /\ B!OneDraft
  BY BatchHeld DEF B!BatchInv
<1>2. BatchTypes /\ BatchTypes'
  BY BatchType, BatchTypesOK DEF B!BatchInv
<1>3. /\ clerk \in [Run -> B!Job] /\ draft \in [B!Id -> DraftStatus]
      /\ booked \in [B!Id -> Nat]
  BY <1>2 DEF BatchTypes
\* A step after which no other draft is alive than before.
<1>4. ASSUME \A e \in B!Id : B!Alive(e)' => B!Alive(e) PROVE B!OneDraft'
  BY <1>1, <1>4 DEF B!OneDraft
\* A step of one request that books nothing.
<1>5. ASSUME NEW c \in Run, UNCHANGED booked, \A q \in Run : q # c => clerk'[q] = clerk[q],
             \A e \in B!Id : e \in B!There' => e \in B!There,
             \A e \in B!Id : clerk'[c].pc \in {"book", "mark"} /\ e \in clerk'[c].todo => B!Alive(e)
      PROVE  B!OneDraft'
  <2>1. ASSUME NEW e \in B!Id, B!Alive(e)' PROVE B!Alive(e)
    BY <1>5, <2>1 DEF B!Alive
  <2> QED BY <1>4, <2>1
<1>6. ASSUME NEW c \in Run, B!CreateDrafts(c) PROVE B!OneDraft'
  <2>1. ~B!Known
    BY <1>6, <1>1 DEF B!CreateDrafts
  <2>2. PICK d \in B!Id : draft[d] = "none" /\ B!Mark(d, "pending")
    BY <1>6 DEF B!CreateDrafts
  <2>3. \A e \in B!Id : e # d => draft'[e] = draft[e]
    BY <1>2, <2>2, DraftMarked DEF DraftStatus
  <2>4. clerk'[c].pc = "review" /\ \A q \in Run : q # c => clerk'[q] = clerk[q]
    BY <1>3, <1>6, BatchJobs, BatchGoes DEF B!CreateDrafts
  <2>5. ASSUME NEW e \in B!Id, B!Alive(e)' PROVE e = d
    <3>1. e \notin B!There /\ ~(booked[e] > 0) /\ \A q \in Run : clerk[q].pc \notin {"book", "mark"}
      BY <2>1 DEF B!Known, B!Busy
    <3>2. UNCHANGED booked /\ \A q \in Run : clerk'[q].pc \notin {"book", "mark"}
      BY <1>6, <2>4, <3>1 DEF B!CreateDrafts
    <3>3. e \in B!There'
      BY <2>5, <3>1, <3>2 DEF B!Alive
    <3> QED BY <2>3, <3>1, <3>3 DEF B!There
  <2> QED BY <2>5 DEF B!OneDraft
<1>7. ASSUME NEW c \in Run, B!StartMapping(c) \/ B!ClearDrafts(c) \/ B!SetProcessing(c) \/ B!SetReview(c)
             \/ B!ReviewDraft(c) \/ B!PatchStatus(c) \/ B!DeleteDrafts(c) \/ B!DeleteBatch(c)
             \/ B!Claim(c) \/ B!Finish(c) \/ B!Die(c)
      PROVE  B!OneDraft'
  <2>1. /\ UNCHANGED clerk \/ clerk'[c].pc \notin {"book", "mark"}
        /\ \A q \in Run : q # c => clerk'[q] = clerk[q]
    BY <1>3, <1>7, BatchJobs, BatchGoes DEF B!StartMapping, B!ClearDrafts, B!SetProcessing, B!SetReview,
       B!ReviewDraft, B!PatchStatus, B!DeleteDrafts, B!DeleteBatch, B!Claim, B!Finish, B!Die, B!Idle
  <2>2. UNCHANGED booked
    BY <1>7 DEF B!StartMapping, B!ClearDrafts, B!SetProcessing, B!SetReview, B!ReviewDraft,
       B!PatchStatus, B!DeleteDrafts, B!DeleteBatch, B!Claim, B!Finish, B!Die
  <2>3. ASSUME NEW e \in B!Id, e \in B!There' PROVE e \in B!There
    <3>1. CASE UNCHANGED draft
      BY <2>3, <3>1 DEF B!There
    <3>2. CASE B!ClearDrafts(c)
      BY <2>3, <3>2 DEF B!ClearDrafts, B!There
    <3>3. CASE B!DeleteDrafts(c) \/ B!DeleteBatch(c)
      BY <2>3, <3>3 DEF B!DeleteDrafts, B!DeleteBatch, B!There
    <3>4. CASE B!ReviewDraft(c)
      <4>1. PICK d \in B!There, s \in {"pending", "confirmed", "rejected"} : B!Mark(d, s)
        BY <3>4 DEF B!ReviewDraft
      <4>2. \A k \in B!Id : k # d => draft'[k] = draft[k]
        BY <1>2, <4>1, DraftMarked DEF DraftStatus, B!There
      <4> QED BY <2>3, <4>1, <4>2 DEF B!There
    <3> QED BY <1>7, <3>1, <3>2, <3>3, <3>4 DEF B!StartMapping, B!SetProcessing, B!SetReview,
       B!PatchStatus, B!Claim, B!Finish, B!Die
  <2>4. ASSUME NEW e \in B!Id, clerk'[c].pc \in {"book", "mark"}, e \in clerk'[c].todo PROVE B!Alive(e)
    BY <2>1, <2>4 DEF B!Alive
  <2> QED BY <1>5, <2>1, <2>2, <2>3, <2>4
<1>8. ASSUME NEW c \in Run, B!ReadDrafts(c) PROVE B!OneDraft'
  <2> DEFINE todo == {d \in B!There : B!Open(d)}
  <2>1. UNCHANGED <<draft, booked>> /\ B!There' = B!There
    BY <1>8 DEF B!ReadDrafts, B!There
  <2>2. clerk'[c].todo = todo /\ \A q \in Run : q # c => clerk'[q] = clerk[q]
    <3>1. todo \in SUBSET B!Id
      BY DEF B!There
    <3>2. B!Go(c, [pc |-> IF todo = {} THEN "finish" ELSE "book", todo |-> todo])
      BY <1>8 DEF B!ReadDrafts
    <3> HIDE DEF todo
    <3>3. PICK pc \in {"finish", "book"} : pc = IF todo = {} THEN "finish" ELSE "book"
      OBVIOUS
    <3> QED BY <1>3, <3>1, <3>2, <3>3, BatchJobs, BatchGoes
  <2>3. \A e \in B!Id : e \in clerk'[c].todo => B!Alive(e)
    BY <2>2 DEF B!Alive
  <2> HIDE DEF todo
  <2> QED BY <1>5, <2>1, <2>2, <2>3
<1>9. ASSUME NEW c \in Run, B!Book(c) PROVE B!OneDraft'
  <2>1. PICK d \in clerk[c].todo :
             /\ d \in B!Id
             /\ \/ /\ booked' = [booked EXCEPT ![d] = @ + 1] /\ UNCHANGED draft
                   /\ \E j \in B!Job : B!Go(c, j) /\ j.pc = "mark" /\ j.todo = clerk[c].todo /\ j.at = d
                \/ /\ IF d \in B!There THEN B!Mark(d, "rejected") ELSE UNCHANGED draft
                   /\ B!After(c, d)
                   /\ UNCHANGED booked
    BY <1>2, <1>9, BatchBooks
  <2>2. clerk[c].pc = "book"
    BY <1>9 DEF B!Book, B!At
  <2>3. \A e \in B!Id : e \in clerk[c].todo => B!Alive(e)
    BY <2>2 DEF B!Alive
  <2>4. CASE /\ booked' = [booked EXCEPT ![d] = @ + 1] /\ UNCHANGED draft
             /\ \E j \in B!Job : B!Go(c, j) /\ j.pc = "mark" /\ j.todo = clerk[c].todo /\ j.at = d
    <3>1. /\ clerk'[c].todo = clerk[c].todo /\ \A q \in Run : q # c => clerk'[q] = clerk[q]
      BY <1>3, <2>4, BatchGoes
    <3>2. \A e \in B!Id : e # d => booked'[e] = booked[e]
      BY <1>3, <2>4
    <3>3. B!There' = B!There
      BY <2>4 DEF B!There
    <3>4. ASSUME NEW e \in B!Id, B!Alive(e)' PROVE B!Alive(e)
      <4>1. CASE e = d
        BY <2>1, <2>3, <4>1
      <4>2. CASE e # d
        BY <2>3, <3>1, <3>2, <3>3, <3>4, <4>2 DEF B!Alive
      <4> QED BY <4>1, <4>2
    <3> QED BY <1>4, <3>4
  <2>5. CASE /\ IF d \in B!There THEN B!Mark(d, "rejected") ELSE UNCHANGED draft
             /\ B!After(c, d)
             /\ UNCHANGED booked
    <3>1. /\ clerk'[c].todo = clerk[c].todo \ {d}
          /\ \A q \in Run : q # c => clerk'[q] = clerk[q]
      BY <1>2, <1>3, <2>2, <2>5, BatchAfter, BatchGoes
    <3>2. ASSUME NEW e \in B!Id, e \in B!There' PROVE e \in B!There
      <4>1. CASE d \in B!There /\ B!Mark(d, "rejected")
        <5>1. \A k \in B!Id : k # d => draft'[k] = draft[k]
          BY <1>2, <2>1, <4>1, DraftMarked DEF DraftStatus
        <5> QED BY <3>2, <4>1, <5>1 DEF B!There
      <4>2. CASE UNCHANGED draft
        BY <3>2, <4>2 DEF B!There
      <4> QED BY <2>5, <4>1, <4>2
    <3>3. \A e \in B!Id : e \in clerk'[c].todo => B!Alive(e)
      BY <2>3, <3>1
    <3> QED BY <1>5, <2>5, <3>1, <3>2, <3>3
  <2> QED BY <2>1, <2>4, <2>5
<1>10. ASSUME NEW c \in Run, B!MarkDraft(c) PROVE B!OneDraft'
  <2> DEFINE d == clerk[c].at
  <2>1. /\ clerk[c].pc = "mark" /\ UNCHANGED booked /\ d \in B!Id
        /\ B!After(c, d) /\ d \in B!There /\ \E s \in {"merged", "rejected"} : B!Mark(d, s)
    BY <1>1, <1>3, <1>10, BatchJobFields DEF B!MarkDraft, B!At
  <2> HIDE DEF d
  <2>2. \A e \in B!Id : e # d => draft'[e] = draft[e]
    BY <1>2, <2>1, DraftMarked DEF DraftStatus
  <2>3. \A e \in B!Id : e \in B!There' => e \in B!There
    BY <2>1, <2>2 DEF B!There
  <2>4. /\ clerk'[c].todo = clerk[c].todo \ {d}
        /\ \A q \in Run : q # c => clerk'[q] = clerk[q]
    BY <1>2, <1>3, <2>1, BatchAfter, BatchGoes
  <2>5. \A e \in B!Id : e \in clerk'[c].todo => B!Alive(e)
    BY <2>1, <2>4 DEF B!Alive
  <2> QED BY <1>5, <2>1, <2>3, <2>4, <2>5
<1>11. CASE UNCHANGED B!vars
  BY <1>1, <1>11 DEF B!vars, B!OneDraft, B!Alive, B!There
<1> QED BY <1>6, <1>7, <1>8, <1>9, <1>10, <1>11 DEF B!Next, B!Mapping, B!Desk, B!Confirm

LEMMA BatchStep == B!BatchInv /\ [B!Next]_(B!vars) => B!BatchInv'
  BY BatchType, BatchHeld, BatchOne DEF B!BatchInv

LEMMA BatchInit == B!Init => B!BatchInv
<1> SUFFICES ASSUME B!Init PROVE B!BatchInv
  OBVIOUS
<1>1. BatchTypes
  BY BatchJobs DEF B!Init, BatchTypes, BatchStatus, DraftStatus
<1>2. (\A d \in B!Id : booked[d] = 0 /\ draft[d] = "none") /\ \A c \in Run : clerk[c].pc = "idle"
  BY DEF B!Init, B!Idle
<1>3. B!OneConfirm
  BY <1>2 DEF B!OneConfirm, B!Holds, B!At
<1>4. B!OneDraft
  BY <1>2 DEF B!OneDraft, B!Alive, B!There
<1> QED BY <1>1, <1>3, <1>4, BatchTypesOK DEF B!BatchInv

LEMMA BatchSuffices == B!BatchInv => B!BookedOnce
<1> SUFFICES ASSUME B!BatchInv, causes = {}, NEW d \in B!Id, NEW e \in B!Id, booked[d] > 0, booked[e] > 0
             PROVE  d = e /\ booked[d] = 1
  BY DEF B!BookedOnce
<1>1. B!OneConfirm /\ B!OneDraft /\ booked[d] \in Nat
  BY DEF B!BatchInv, B!TypeOK
<1>2. d = e
  BY <1>1 DEF B!OneDraft, B!Alive
<1>3. booked[d] = 1
  BY <1>1 DEF B!OneConfirm
<1> QED BY <1>2, <1>3

(***************************************************************************)
(* The stock in the books.                                                 *)
(***************************************************************************)

LEMMA MirrorFault == stockFaults \in Nat /\ S!Fault => stockFaults' \in Nat
  BY DEF S!Fault

\* What the comparison holds at each of its places.
LEMMA MirrorRun ==
    ASSUME mirror \in {S!Idle} \cup S!Asking \cup S!Correcting \cup S!Told
    PROVE  /\ S!At("ask") => mirror \in S!Asking
           /\ S!At("correct") => mirror \in S!Correcting
           /\ S!At("tell") => mirror \in S!Told
           /\ S!At("idle") => mirror = S!Idle
           /\ S!At("ask") \/ S!At("correct") \/ S!At("tell") \/ S!At("idle")
  BY DEF S!At, S!Idle, S!Asking, S!Correcting, S!Told

LEMMA MirrorStep == S!MirrorInv /\ [S!Next]_(S!vars) => S!MirrorInv'
<1> SUFFICES ASSUME S!MirrorInv, [S!Next]_(S!vars) PROVE S!TypeOK' /\ (still' => S!Follows')
  BY DEF S!MirrorInv
<1>1. /\ onHand \in [Product -> Nat] /\ count \in [Product -> {S!NoRecord} \cup Nat]
      /\ unsent \in [Product -> Nat] /\ autocorrect \in BOOLEAN /\ alert \in BOOLEAN
      /\ mirror \in {S!Idle} \cup S!Asking \cup S!Correcting \cup S!Told
      /\ stockFaults \in Nat /\ still \in BOOLEAN /\ missed \in BOOLEAN
  BY DEF S!MirrorInv, S!TypeOK
<1>2. still => S!Follows
  BY DEF S!MirrorInv
<1>3. ASSUME NEW p \in Product, S!Ship(p) \/ S!SendNote(p) \/ S!Receive(p)
      PROVE  S!TypeOK' /\ ~still'
  <2>1. CASE S!Ship(p)
    <3>1. onHand' \in [Product -> Nat] /\ unsent' \in [Product -> Nat]
      BY <1>1, <2>1 DEF S!Ship
    <3> QED BY <1>1, <2>1, <3>1 DEF S!Ship, S!TypeOK
  <2>2. CASE S!SendNote(p)
    <3>1. unsent' \in [Product -> Nat]
      BY <1>1, <2>2 DEF S!SendNote
    <3>2. count' \in [Product -> {S!NoRecord} \cup Nat]
      BY <1>1, <2>2 DEF S!SendNote, S!NoRecord
    <3> QED BY <1>1, <2>2, <3>1, <3>2 DEF S!SendNote, S!TypeOK
  <2>3. CASE S!Receive(p)
    <3>1. onHand' \in [Product -> Nat]
      BY <1>1, <2>3 DEF S!Receive
    <3> QED BY <1>1, <2>3, <3>1 DEF S!Receive, S!TypeOK
  <2> QED BY <1>3, <2>1, <2>2, <2>3
<1>4. CASE S!Start
  <2>1. /\ mirror' \in S!Asking /\ mirror'.todo = Compared /\ mirror'.read = onHand
        /\ mirror'.drifts = {} /\ mirror'.pc = "ask"
    BY <1>1, <1>4, ComparedAssumption DEF S!Start, S!Asking
  <2>2. UNCHANGED <<onHand, count, unsent, autocorrect, alert, stockFaults>>
        /\ still' = TRUE /\ missed' = (Compared # Product)
    BY <1>4 DEF S!Start
  <2>3. S!Drifts' \ Product = {}
    BY DEF S!Drifts
  <2>4. S!TypeOK'
    BY <1>1, <2>1, <2>2 DEF S!TypeOK
  <2>5. (~missed' => mirror'.drifts = S!Drifts' \ mirror'.todo) /\ mirror'.read = onHand'
    BY <2>1, <2>2, <2>3
  <2> QED BY <2>1, <2>4, <2>5 DEF S!Follows, S!At
<1>5. CASE S!Ask
  <2>1. mirror \in S!Asking /\ mirror.pc = "ask"
    BY <1>1, <1>5, MirrorRun DEF S!Ask, S!At
  <2>2. UNCHANGED <<onHand, count, unsent, autocorrect, alert, still>> /\ S!Drifts' = S!Drifts
    BY <1>5 DEF S!Ask, S!Drifts
  <2>3. PICK p \in mirror.todo :
          \/ /\ mirror' = [mirror EXCEPT !.todo = @ \ {p},
                             !.drifts = IF S!HasDrift(mirror.read[p], count[p])
                                        THEN @ \cup {p} ELSE @]
             /\ UNCHANGED <<stockFaults, missed>>
          \/ S!Fault /\ mirror' = [mirror EXCEPT !.todo = @ \ {p}] /\ missed' = TRUE
    BY <1>5 DEF S!Ask
  <2>4. /\ mirror' \in S!Asking /\ mirror'.pc = "ask" /\ mirror'.read = mirror.read
        /\ mirror'.todo = mirror.todo \ {p}
        /\ ~missed' => mirror'.drifts = IF S!HasDrift(mirror.read[p], count[p])
                                        THEN mirror.drifts \cup {p} ELSE mirror.drifts
    <3>1. p \in Product /\ mirror.todo \subseteq Product /\ mirror.drifts \subseteq Product
      BY <2>1, <2>3 DEF S!Asking
    <3>3. \A t \in SUBSET Product :
            LET m == [mirror EXCEPT !.todo = t] IN
            m \in S!Asking /\ m.pc = "ask" /\ m.read = mirror.read /\ m.todo = t
      BY <2>1 DEF S!Asking
    <3>4. CASE S!Fault /\ mirror' = [mirror EXCEPT !.todo = @ \ {p}] /\ missed' = TRUE
      BY <3>1, <3>3, <3>4
    <3> DEFINE d == IF S!HasDrift(mirror.read[p], count[p]) THEN mirror.drifts \cup {p} ELSE mirror.drifts
    <3>5. CASE mirror' = [mirror EXCEPT !.todo = @ \ {p}, !.drifts = d]
      <4>1. mirror.todo \ {p} \in SUBSET Product /\ d \in SUBSET Product
        BY <3>1
      <4> HIDE DEF d
      <4>2. mirror' = [mirror EXCEPT !.todo = mirror.todo \ {p}, !.drifts = d]
        BY <2>1, <3>5 DEF S!Asking
      <4>3. mirror' \in S!Asking /\ mirror'.pc = "ask" /\ mirror'.read = mirror.read
            /\ mirror'.todo = mirror.todo \ {p} /\ mirror'.drifts = d
        BY <2>1, <4>1, <4>2 DEF S!Asking
      <4> QED BY <4>3 DEF d
    <3> QED BY <2>3, <3>4, <3>5
  <2>5. stockFaults' \in Nat /\ missed' \in BOOLEAN /\ (~missed' => ~missed)
    BY <1>1, <2>3, MirrorFault
  <2>6. S!TypeOK'
    BY <1>1, <2>2, <2>4, <2>5 DEF S!TypeOK
  <2>7. ASSUME still, ~missed' PROVE mirror'.drifts = S!Drifts' \ mirror'.todo
    <3>1. mirror.read = onHand /\ mirror.drifts = S!Drifts \ mirror.todo
      BY <1>2, <2>1, <2>5, <2>7 DEF S!Follows, S!At
    <3>2. p \in Product
      BY <2>1, <2>3 DEF S!Asking
    <3>3. p \in S!Drifts <=> S!HasDrift(mirror.read[p], count[p])
      BY <3>1, <3>2 DEF S!Drifts
    <3> QED BY <2>2, <2>3, <2>4, <2>7, <3>1, <3>3
  <2>8. still => mirror'.read = onHand'
    BY <1>2, <2>1, <2>2, <2>4 DEF S!Follows, S!At
  <2> QED BY <2>2, <2>4, <2>6, <2>7, <2>8 DEF S!Follows, S!At
<1>6. CASE S!Decide
  <2>1. mirror \in S!Asking /\ mirror.pc = "ask" /\ mirror.todo = {}
    BY <1>1, <1>6, MirrorRun DEF S!Decide, S!At
  <2>2. UNCHANGED <<onHand, count, unsent, autocorrect, alert, stockFaults, still, missed>>
        /\ S!Drifts' = S!Drifts
    BY <1>6 DEF S!Decide, S!Drifts
  <2>3. mirror.drifts \subseteq Product /\ mirror.read \in [Product -> Nat]
    BY <2>1 DEF S!Asking
  <2>4. still => mirror.read = onHand /\ (~missed => mirror.drifts = S!Drifts)
    BY <1>2, <2>1 DEF S!Follows, S!At
  <2>5. CASE mirror' = S!Telling(mirror.drifts)
    <3>1. mirror' \in S!Told /\ mirror'.pc = "tell" /\ mirror'.left = mirror.drifts
      BY <2>3, <2>5 DEF S!Told, S!Telling
    <3>2. S!TypeOK'
      BY <1>1, <2>2, <3>1 DEF S!TypeOK
    <3> QED BY <2>2, <2>4, <3>1, <3>2 DEF S!Follows, S!At
  <2>6. CASE mirror' = [pc |-> "correct", todo |-> mirror.drifts, read |-> mirror.read, left |-> {}]
    <3>1. /\ mirror' \in S!Correcting /\ mirror'.pc = "correct" /\ mirror'.left = {}
          /\ mirror'.todo = mirror.drifts /\ mirror'.read = mirror.read
      BY <2>3, <2>6 DEF S!Correcting
    <3>2. S!TypeOK'
      BY <1>1, <2>2, <3>1 DEF S!TypeOK
    <3> QED BY <2>2, <2>4, <3>1, <3>2 DEF S!Follows, S!At
  <2> QED BY <1>6, <2>5, <2>6 DEF S!Decide
<1>10. CASE S!Correct
  <2>1. mirror \in S!Correcting /\ mirror.pc = "correct"
    BY <1>1, <1>10, MirrorRun DEF S!Correct, S!At
  <2>2. UNCHANGED <<onHand, unsent, autocorrect, alert, still>>
    BY <1>10 DEF S!Correct
  <2> DEFINE Corrected(chunk) == [p \in Product |-> IF p \in chunk THEN S!Corrected(p) ELSE count[p]]
             After(chunk, left) == IF chunk = mirror.todo THEN S!Telling(left)
                                  ELSE [mirror EXCEPT !.todo = @ \ chunk, !.left = left]
  <2>3. PICK chunk \in SUBSET mirror.todo :
          \/ /\ mirror' = After(chunk, mirror.left) /\ count' = Corrected(chunk)
             /\ UNCHANGED <<stockFaults, missed>>
          \/ /\ mirror' = After(chunk, mirror.left \cup chunk) /\ S!Fault
             /\ \/ UNCHANGED <<count, missed>>
                \/ count' = Corrected(chunk) /\ missed' = TRUE
    BY <1>10 DEF S!Correct
  <2>4. /\ chunk \subseteq Product /\ mirror.todo \subseteq Product /\ mirror.left \subseteq Product
        /\ mirror.read \in [Product -> Nat]
    BY <2>1, <2>3 DEF S!Correcting
  <2>5. ASSUME NEW left \in SUBSET Product, mirror' = After(chunk, left)
        PROVE  /\ mirror' \in S!Correcting \cup S!Told
               /\ mirror'.pc = IF chunk = mirror.todo THEN "tell" ELSE "correct"
               /\ mirror'.left = left
               /\ chunk # mirror.todo => mirror'.todo = mirror.todo \ chunk /\ mirror'.read = mirror.read
    <3>1. CASE chunk = mirror.todo
      BY <2>5, <3>1 DEF S!Told, S!Telling
    <3>2. CASE chunk # mirror.todo
      <4>1. mirror' = [mirror EXCEPT !.todo = mirror.todo \ chunk, !.left = left]
        BY <2>1, <2>5, <3>2 DEF S!Correcting
      <4>2. mirror.todo \ chunk \in SUBSET Product
        BY <2>4
      <4> QED BY <2>1, <3>2, <4>1, <4>2 DEF S!Correcting
    <3> QED BY <3>1, <3>2
  <2> HIDE DEF After
  <2>6. PICK left \in SUBSET Product :
          mirror' = After(chunk, left) /\ left \in {mirror.left, mirror.left \cup chunk}
    BY <2>3, <2>4
  <2>7. /\ mirror' \in S!Correcting \cup S!Told
        /\ mirror'.pc = IF chunk = mirror.todo THEN "tell" ELSE "correct"
        /\ mirror'.left = left
        /\ chunk # mirror.todo => mirror'.todo = mirror.todo \ chunk /\ mirror'.read = mirror.read
    BY <2>5, <2>6
  <2>8. count' \in [Product -> {S!NoRecord} \cup Nat]
    <3>1. Corrected(chunk) \in [Product -> {S!NoRecord} \cup Nat]
      BY <1>1, <2>4 DEF S!Corrected
    <3> HIDE DEF Corrected
    <3> QED BY <1>1, <2>3, <3>1
  <2>9. stockFaults' \in Nat /\ missed' \in BOOLEAN /\ (~missed' => ~missed)
    BY <1>1, <2>3, MirrorFault
  <2>10. S!TypeOK'
    BY <1>1, <2>2, <2>7, <2>8, <2>9 DEF S!TypeOK
  <2>11. ASSUME still, ~missed'
         PROVE  \/ S!Drifts' = S!Drifts \ chunk /\ mirror'.left = mirror.left
                \/ S!Drifts' = S!Drifts /\ mirror'.left = mirror.left \cup chunk
    <3>1. mirror.read = onHand
      BY <1>2, <2>1, <2>11 DEF S!Follows, S!At
    <3>2. CASE mirror' = After(chunk, mirror.left) /\ count' = Corrected(chunk)
      <4>1. mirror'.left = mirror.left
        BY <2>4, <2>5, <3>2
      <4>2. \A p \in Product : S!HasDrift(onHand'[p], count'[p]) <=>
                                S!HasDrift(onHand[p], count[p]) /\ p \notin chunk
        BY <2>2, <3>1, <3>2 DEF S!HasDrift, S!Corrected
      <4>3. S!Drifts' = S!Drifts \ chunk
        BY <4>2 DEF S!Drifts
      <4> QED BY <4>1, <4>3
    <3>3. CASE mirror' = After(chunk, mirror.left \cup chunk) /\ UNCHANGED count
      <4>1. mirror'.left = mirror.left \cup chunk
        BY <2>4, <2>5, <3>3
      <4>2. S!Drifts' = S!Drifts
        BY <2>2, <3>3 DEF S!Drifts
      <4> QED BY <4>1, <4>2
    <3> QED BY <2>3, <2>11, <3>2, <3>3
  <2>12. ASSUME still, ~missed'
         PROVE  mirror.todo \cap mirror.left = {} /\ S!Drifts = mirror.todo \cup mirror.left
    BY <1>2, <2>1, <2>9, <2>12 DEF S!Follows, S!At
  <2>13. CASE chunk = mirror.todo
    <3>1. still /\ ~missed' => mirror'.left = S!Drifts'
      BY <2>11, <2>12, <2>13
    <3> QED BY <2>2, <2>7, <2>10, <2>13, <3>1 DEF S!Follows, S!At
  <2>14. CASE chunk # mirror.todo
    <3>1. mirror'.pc = "correct" /\ mirror'.todo = mirror.todo \ chunk /\ mirror'.read = mirror.read
      BY <2>7, <2>14
    <3>2. still /\ ~missed' => /\ mirror'.todo \cap mirror'.left = {}
                              /\ S!Drifts' = mirror'.todo \cup mirror'.left
      <4>1. chunk \subseteq mirror.todo
        BY <2>3
      <4> QED BY <2>11, <2>12, <3>1, <4>1
    <3>3. still => mirror'.read = onHand'
      BY <1>2, <2>1, <2>2, <3>1 DEF S!Follows, S!At
    <3> QED BY <2>2, <2>10, <3>1, <3>2, <3>3 DEF S!Follows, S!At
  <2> QED BY <2>13, <2>14
<1>7. CASE S!Tell
  <2>1. mirror \in S!Told /\ mirror.pc = "tell"
    BY <1>1, <1>7, MirrorRun DEF S!Tell, S!At
  <2>2. /\ mirror' = S!Idle /\ mirror'.pc = "idle"
        /\ UNCHANGED <<onHand, count, unsent, autocorrect, still>> /\ S!Drifts' = S!Drifts
    BY <1>7 DEF S!Tell, S!Idle, S!Drifts
  <2>3. \/ alert' = (mirror.left # {}) /\ UNCHANGED <<stockFaults, missed>>
        \/ S!Fault /\ missed' = TRUE /\ UNCHANGED alert
    BY <1>7 DEF S!Tell, S!DifferencesLeft
  <2>4. S!TypeOK'
    BY <1>1, <2>2, <2>3, MirrorFault DEF S!TypeOK
  <2>5. ASSUME still, ~missed' PROVE alert' <=> S!Drifts' # {}
    BY <1>2, <2>1, <2>2, <2>3, <2>5 DEF S!Follows, S!At
  <2> QED BY <2>2, <2>4, <2>5 DEF S!Follows, S!At
<1>8. CASE S!Die
  <2>1. /\ mirror' = S!Idle /\ mirror'.pc = "idle" /\ missed'
        /\ UNCHANGED <<onHand, count, unsent, autocorrect, alert, stockFaults, still>>
    BY <1>8 DEF S!Die, S!Idle
  <2> QED BY <1>1, <1>8, <2>1 DEF S!Die, S!TypeOK, S!Follows, S!At
<1>11. CASE S!Close
  BY <1>1, <1>11 DEF S!Close, S!TypeOK
<1>9. CASE UNCHANGED S!vars
  BY <1>1, <1>2, <1>9 DEF S!vars, S!TypeOK, S!Follows, S!At, S!Drifts
<1> QED BY <1>3, <1>4, <1>5, <1>6, <1>7, <1>8, <1>9, <1>10, <1>11 DEF S!Next

LEMMA MirrorInit == S!Init => S!MirrorInv
<1> SUFFICES ASSUME S!Init PROVE S!MirrorInv
  OBVIOUS
<1>1. onHand \in [Product -> Nat] /\ count \in [Product -> {S!NoRecord} \cup Nat]
  BY DEF S!Init
<1>2. unsent \in [Product -> Nat]
  BY DEF S!Init
<1> QED BY <1>1, <1>2 DEF S!Init, S!MirrorInv, S!TypeOK

LEMMA MirrorSuffices == S!MirrorInv => S!RunSettles
  BY DEF S!MirrorInv, S!Follows, S!RunSettles

(***************************************************************************)
(* Purchase bills.                                                         *)
(***************************************************************************)

BillSteps == {"contact", "product", "bill"}

LEMMA BillJobs ==
    /\ P!Idle \in P!Job
    /\ \A s \in BillSteps : /\ [pc |-> "ensure", step |-> s] \in P!Job
                           /\ [pc |-> "advance", step |-> s] \in P!Job
                           /\ [pc |-> "fail", step |-> s] \in P!Job
    /\ [pc |-> "refetch"] \in P!Job /\ [pc |-> "mark"] \in P!Job /\ [pc |-> "create"] \in P!Job
    /\ [pc |-> "record"] \in P!Job /\ [pc |-> "release"] \in P!Job
    /\ \A b \in BOOLEAN : [pc |-> "search", attempted |-> b] \in P!Job
  BY DEF P!Job, P!Idle, P!NextStep, BillSteps

LEMMA BillJobFields ==
    \A j \in P!Job :
        /\ j.pc \in {"ensure", "advance", "fail"} => j.step \in BillSteps
        /\ j.pc = "search" => j.attempted \in BOOLEAN
  BY DEF P!Job, P!Idle, P!NextStep, BillSteps

LEMMA BillNextSteps == \A s \in BillSteps : P!NextStep[s] \in {"product", "bill", "done"}
  BY DEF P!NextStep, BillSteps

\* A step of one run.
LEMMA BillGoes ==
    ASSUME billRun \in [Run -> P!Job], NEW r \in Run, NEW j \in P!Job, P!Go(r, j)
    PROVE  /\ billRun' \in [Run -> P!Job]
           /\ billRun'[r] = j /\ \A q \in Run : q # r => billRun'[q] = billRun[q]
  BY DEF P!Go

LEMMA BillFault == billFaults \in Nat /\ P!Fault => billFaults' \in Nat
  BY DEF P!Fault

BillRow == [step : {"none", "contact", "product", "bill", "done"},
            attempted : BOOLEAN, bill : BOOLEAN, error : BOOLEAN]

LEMMA BillType == P!TypeOK /\ [P!Next]_(P!vars) => P!TypeOK'
<1> SUFFICES ASSUME P!TypeOK, [P!Next]_(P!vars) PROVE P!TypeOK'
  OBVIOUS
<1>1. /\ po \in BillRow /\ lock \in Run \cup {NoRun} /\ bills \in Nat /\ billRun \in [Run -> P!Job]
      /\ billFaults \in Nat /\ stale \in BOOLEAN
  BY DEF P!TypeOK, BillRow
<1>2. ASSUME NEW r \in Run, P!Work(r) \/ P!Die(r)
      PROVE  /\ po' \in BillRow /\ lock' \in Run \cup {NoRun} /\ bills' \in Nat
             /\ billRun' \in [Run -> P!Job] /\ billFaults' \in Nat /\ stale' \in BOOLEAN
  <2>1. CASE P!Claim(r)
    BY <1>1, <2>1, BillJobs, BillGoes DEF P!Claim, BillSteps
  <2>2. CASE P!Ensure(r)
    <3>1. billRun[r].step \in BillSteps
      BY <1>1, <2>2, BillJobFields DEF P!Ensure, P!At
    <3> QED BY <1>1, <2>2, <3>1, BillJobs, BillGoes, BillFault DEF P!Ensure, P!Fails, BillSteps
  <2>3. CASE P!Advance(r)
    <3>1. billRun[r].step \in BillSteps
      BY <1>1, <2>3, BillJobFields DEF P!Advance, P!At
    <3>2. po' = po \/ po' = [po EXCEPT !.step = P!NextStep[billRun[r].step], !.error = FALSE]
      BY <2>3 DEF P!Advance
    <3>3. po' \in BillRow
      BY <1>1, <3>1, <3>2, BillNextSteps DEF BillRow
    <3>4. \E j \in P!Job : P!Go(r, j)
      BY <1>1, <2>3, <3>1, BillJobs DEF P!Advance, P!Fails, BillSteps
    <3>5. UNCHANGED <<lock, bills, stale>> /\ billFaults' \in Nat
      BY <1>1, <2>3, BillFault DEF P!Advance
    <3> QED BY <1>1, <3>3, <3>4, <3>5, BillGoes
  <2>4. CASE P!Refetch(r)
    <3>1. \E j \in P!Job : P!Go(r, j)
      BY <1>1, <2>4, BillJobs DEF P!Refetch, BillRow, BillSteps
    <3> QED BY <1>1, <2>4, <3>1, BillGoes DEF P!Refetch
  <2>5. CASE P!Search(r)
    <3>1. \E j \in P!Job : P!Go(r, j)
      BY <1>1, <2>5, BillJobs DEF P!Search, P!Fails, BillSteps
    <3> QED BY <1>1, <2>5, <3>1, BillGoes DEF P!Search
  <2>6. CASE P!MarkAttempt(r)
    <3>1. \E j \in P!Job : P!Go(r, j)
      BY <1>1, <2>6, BillJobs DEF P!MarkAttempt, P!Fails, BillSteps
    <3>2. po' \in BillRow
      BY <1>1, <2>6 DEF P!MarkAttempt, P!Remembered, BillRow
    <3> QED BY <1>1, <2>6, <3>1, <3>2, BillGoes, BillFault DEF P!MarkAttempt
  <2>7. CASE P!Create(r)
    <3>1. \E j \in P!Job : P!Go(r, j)
      BY <1>1, <2>7, BillJobs DEF P!Create, P!Fails, BillSteps
    <3> QED BY <1>1, <2>7, <3>1, BillGoes, BillFault DEF P!Create
  <2>8. CASE P!Record(r)
    <3>1. \E j \in P!Job : P!Go(r, j)
      BY <1>1, <2>8, BillJobs DEF P!Record, P!Fails, BillSteps
    <3>2. po' \in BillRow
      BY <1>1, <2>8 DEF P!Record, BillRow
    <3> QED BY <1>1, <2>8, <3>1, <3>2, BillGoes, BillFault DEF P!Record
  <2>9. CASE P!Fail(r)
    <3>1. billRun[r].step \in BillSteps
      BY <1>1, <2>9, BillJobFields DEF P!Fail, P!At
    <3>2. po' = po \/ po' = [po EXCEPT !.step = billRun[r].step, !.error = TRUE]
      BY <2>9 DEF P!Fail
    <3>3. po' \in BillRow
      BY <1>1, <3>1, <3>2 DEF BillRow, BillSteps
    <3> QED BY <1>1, <2>9, <3>3, BillJobs, BillGoes, BillFault DEF P!Fail
  <2>10. CASE P!Release(r)
    BY <1>1, <2>10, BillJobs, BillGoes DEF P!Release
  <2>11. CASE P!Die(r)
    BY <1>1, <2>11, BillJobs, BillGoes, BillFault DEF P!Die
  <2> QED BY <1>2, <2>1, <2>2, <2>3, <2>4, <2>5, <2>6, <2>7, <2>8, <2>9, <2>10, <2>11 DEF P!Work
<1>3. CASE P!Lapse
  <2>1. /\ lock' = NoRun /\ billFaults' \in Nat /\ stale' \in BOOLEAN
        /\ UNCHANGED <<po, bills, billRun>>
    BY <1>1, <1>3, BillFault DEF P!Lapse, P!TypeOK
  <2> QED BY <1>1, <2>1 DEF P!TypeOK, BillRow
<1>4. CASE UNCHANGED P!vars
  BY <1>1, <1>4 DEF P!vars, P!TypeOK, BillRow
<1>5. ASSUME NEW r \in Run, P!Work(r) \/ P!Die(r) PROVE P!TypeOK'
  BY <1>2, <1>5 DEF P!TypeOK, BillRow
<1> QED BY <1>3, <1>4, <1>5 DEF P!Next

\* While no lease has lapsed under a run, the run that holds it is the only one.
LEMMA BillStep == P!BillInv /\ [P!Next]_(P!vars) => P!BillInv'
<1> SUFFICES ASSUME P!BillInv, [P!Next]_(P!vars), ~stale' PROVE P!OneRun'
  BY BillType DEF P!BillInv
<1>1. /\ po \in BillRow /\ lock \in Run \cup {NoRun} /\ bills \in Nat /\ billRun \in [Run -> P!Job]
      /\ billFaults \in Nat /\ NoRun \notin Run
  BY NoRunAssumption DEF P!BillInv, P!TypeOK, BillRow
<1>2. ~stale
  BY DEF P!Next, P!vars, P!Lapse, P!Work, P!Die, P!Claim, P!Ensure, P!Advance, P!Refetch, P!Search,
         P!MarkAttempt, P!Create, P!Record, P!Fail, P!Release
<1>3. P!OneRun
  BY <1>2 DEF P!BillInv
<1> USE DEF P!At
\* A step that leaves the order's memory, the bills and the lease alone.
<1>4. ASSUME NEW r \in Run, NEW j \in P!Job, P!Go(r, j), po'.attempted = po.attempted,
             UNCHANGED <<lock, bills>>, lock = r,
             j.pc = "search" => j.attempted = po.attempted,
             j.pc = "mark" => bills = 0, j.pc # "create"
      PROVE  P!OneRun'
  BY <1>1, <1>3, <1>4, BillGoes DEF P!OneRun
<1>5. ASSUME NEW r \in Run, P!Work(r) \/ P!Die(r) PROVE P!OneRun'
  <2>1. CASE P!Claim(r)
    <3>1. /\ \A q \in Run : billRun[q].pc = "idle"
          /\ lock' = r /\ UNCHANGED <<po, bills>>
      BY <1>1, <1>3, <2>1 DEF P!Claim, P!Claimable, P!OneRun
    <3>2. billRun'[r].pc = "ensure" /\ \A q \in Run : q # r => billRun'[q] = billRun[q]
      BY <1>1, <2>1, BillJobs, BillGoes DEF P!Claim, BillSteps
    <3> QED BY <1>3, <3>1, <3>2 DEF P!OneRun
  <2>2. ASSUME ~P!Claim(r) PROVE lock = r
    BY <1>1, <1>3, <1>5, <2>2 DEF P!OneRun, P!Work, P!Die, P!Ensure, P!Advance, P!Refetch, P!Search,
       P!MarkAttempt, P!Create, P!Record, P!Fail, P!Release
  <2>3. CASE P!Ensure(r)
    <3>1. billRun[r].step \in BillSteps /\ lock = r
      BY <1>1, <1>3, <2>3, BillJobFields DEF P!Ensure, P!OneRun
    <3> QED BY <1>1, <1>4, <2>3, <3>1, BillJobs DEF P!Ensure, P!Fails
  <2>4. CASE P!Advance(r)
    <3>1. billRun[r].step \in BillSteps /\ lock = r
      BY <1>1, <1>3, <2>4, BillJobFields DEF P!Advance, P!OneRun
    <3>2. po'.attempted = po.attempted /\ UNCHANGED <<lock, bills>>
      BY <1>1, <2>4 DEF P!Advance, BillRow
    <3>3. \E j \in P!Job : P!Go(r, j) /\ j.pc \notin {"search", "mark", "create"}
      BY <1>1, <2>4, <3>1, BillJobs DEF P!Advance, P!Fails, BillSteps
    <3> QED BY <1>1, <1>4, <3>1, <3>2, <3>3
  <2>5. CASE P!Refetch(r)
    <3>1. lock = r /\ UNCHANGED <<po, lock, bills>>
      BY <1>1, <1>3, <2>5 DEF P!Refetch, P!OneRun
    <3>2. \E j \in P!Job : /\ P!Go(r, j) /\ j.pc \in {"advance", "search"}
                           /\ j.pc = "search" => j.attempted = po.attempted
      BY <1>1, <2>5, BillJobs DEF P!Refetch, BillRow, BillSteps
    <3> QED BY <1>1, <1>4, <3>1, <3>2
  <2>6. CASE P!Search(r)
    <3>1. lock = r /\ UNCHANGED <<po, lock, bills>> /\ billRun[r].attempted = po.attempted
      BY <1>1, <1>3, <2>6 DEF P!Search, P!OneRun
    <3>2. \E j \in P!Job : /\ P!Go(r, j) /\ j.pc \in {"record", "fail", "mark"}
                           /\ j.pc = "mark" => ~po.attempted
      BY <1>1, <2>6, <3>1, BillJobs DEF P!Search, P!Fails, BillSteps
    <3>3. ~po.attempted => bills = 0
      BY <1>1, <1>3 DEF P!OneRun
    <3> QED BY <1>1, <1>4, <3>1, <3>2, <3>3
  <2>7. CASE P!MarkAttempt(r)
    <3>1. lock = r /\ UNCHANGED <<lock, bills>> /\ bills = 0
      BY <1>1, <1>3, <2>7 DEF P!MarkAttempt, P!OneRun
    <3>2. CASE P!Fails(r, "bill") /\ UNCHANGED po
      BY <1>1, <1>4, <3>1, <3>2, BillJobs DEF P!Fails, BillSteps
    <3>3. CASE po' = P!Remembered /\ P!Go(r, [pc |-> "create"])
      <4>1. po'.attempted
        BY <1>1, <3>3 DEF P!Remembered, BillRow
      <4>2. billRun'[r].pc = "create" /\ \A q \in Run : q # r => billRun'[q] = billRun[q]
        BY <1>1, <3>3, BillJobs, BillGoes
      <4> QED BY <1>1, <1>3, <3>1, <4>1, <4>2 DEF P!OneRun
    <3> QED BY <2>7, <3>2, <3>3 DEF P!MarkAttempt
  <2>8. CASE P!Create(r)
    <3>1. /\ lock = r /\ UNCHANGED <<po, lock>> /\ bills = 0 /\ po.attempted
          /\ bills' \in {0, 1}
      BY <1>1, <1>3, <2>8 DEF P!Create, P!OneRun
    <3>2. billRun'[r].pc \in {"record", "fail"} /\ \A q \in Run : q # r => billRun'[q] = billRun[q]
      BY <1>1, <2>8, BillJobs, BillGoes DEF P!Create, P!Fails, BillSteps
    <3>3. bills' <= 1 /\ (bills' > 0 => po'.attempted)
      BY <3>1
    <3>4. \A q \in Run : billRun'[q].pc # "idle" => lock' = q
      BY <1>3, <3>1, <3>2 DEF P!OneRun
    <3>5. \A q \in Run : billRun'[q].pc \notin {"search", "mark", "create"}
      BY <1>3, <3>1, <3>2 DEF P!OneRun
    <3> QED BY <3>3, <3>4, <3>5 DEF P!OneRun
  <2>9. CASE P!Record(r)
    <3>1. lock = r /\ UNCHANGED <<lock, bills>>
      BY <1>1, <1>3, <2>9 DEF P!Record, P!OneRun
    <3>2. po'.attempted = po.attempted
      BY <1>1, <2>9 DEF P!Record, BillRow
    <3>3. \E j \in P!Job : P!Go(r, j) /\ j.pc \in {"advance", "fail"}
      BY <1>1, <2>9, BillJobs DEF P!Record, P!Fails, BillSteps
    <3> QED BY <1>1, <1>4, <3>1, <3>2, <3>3
  <2>10. CASE P!Fail(r)
    <3>1. lock = r /\ UNCHANGED <<lock, bills>>
      BY <1>1, <1>3, <2>10 DEF P!Fail, P!OneRun
    <3>2. po'.attempted = po.attempted
      BY <1>1, <2>10 DEF P!Fail, BillRow
    <3> QED BY <1>1, <1>4, <2>10, <3>1, <3>2, BillJobs DEF P!Fail
  <2>11. CASE P!Release(r) \/ P!Die(r)
    <3>1. lock = r /\ UNCHANGED <<po, bills>>
      BY <1>1, <1>3, <2>11 DEF P!Release, P!Die, P!OneRun
    <3>2. billRun'[r].pc = "idle" /\ \A q \in Run : q # r => billRun'[q] = billRun[q]
      BY <1>1, <2>11, BillJobs, BillGoes DEF P!Release, P!Die, P!Idle
    <3>3. \A q \in Run : q # r => billRun[q].pc = "idle"
      BY <1>3, <3>1 DEF P!OneRun
    <3> QED BY <1>3, <3>1, <3>2, <3>3 DEF P!OneRun
  <2> QED BY <1>5, <2>1, <2>3, <2>4, <2>5, <2>6, <2>7, <2>8, <2>9, <2>10, <2>11 DEF P!Work
<1>6. CASE P!Lapse
  <2>1. lock \in Run /\ billRun[lock].pc = "idle" /\ UNCHANGED <<po, bills, billRun>>
    BY <1>1, <1>6 DEF P!Lapse
  <2> QED BY <1>3, <2>1 DEF P!OneRun
<1>7. CASE UNCHANGED P!vars
  BY <1>3, <1>7 DEF P!vars, P!OneRun
<1> QED BY <1>5, <1>6, <1>7 DEF P!Next

LEMMA BillInit == P!Init => P!BillInv
<1> SUFFICES ASSUME P!Init PROVE P!TypeOK /\ P!OneRun
  BY DEF P!BillInv
<1>1. P!TypeOK
  BY BillJobs DEF P!Init, P!TypeOK
<1>2. P!OneRun
  <2>1. (\A r \in Run : billRun[r].pc = "idle") /\ bills = 0
    BY DEF P!Init, P!Idle
  <2> QED BY <2>1 DEF P!OneRun, P!At
<1> QED BY <1>1, <1>2

LEMMA BillSuffices == P!BillInv => P!SecondBillNeedsStaleRun
  BY DEF P!BillInv, P!TypeOK, P!OneRun, P!SecondBillNeedsStaleRun

(***************************************************************************)
(* The files of products.                                                  *)
(***************************************************************************)

SetterRow == [step : {"idle", "clear", "set", "done", "failed"},
              file : Product \cup {CHOOSE f \in Product : TRUE}]

LEMMA StoreFault == \A f : fileFaults \in Nat /\ F!Fault(f) =>
                        fileFaults' \in Nat /\ fileFaults' # 0 /\ spoilt' = spoilt \cup {f}
  BY DEF F!Fault

\* A request moves on with the file it has, or begins with another one.
LEMMA SetterMoves ==
    ASSUME setter \in [Run -> SetterRow], NEW s \in Run,
           NEW to \in {"idle", "clear", "set", "done", "failed"},
           setter' = [setter EXCEPT ![s].step = to]
    PROVE  /\ setter' \in [Run -> SetterRow]
           /\ setter'[s].step = to /\ setter'[s].file = setter[s].file
           /\ \A o \in Run : o # s => setter'[o] = setter[o]
<1>1. setter[s] \in SetterRow
  OBVIOUS
<1>2. PICK x : x = [setter[s] EXCEPT !.step = to]
  OBVIOUS
<1>3. x \in SetterRow /\ x.step = to /\ x.file = setter[s].file
  BY <1>1, <1>2 DEF SetterRow
<1>4. setter' = [setter EXCEPT ![s] = x]
  BY <1>2
<1> QED BY <1>3, <1>4

LEMMA SetterBegins ==
    ASSUME setter \in [Run -> SetterRow], NEW s \in Run, NEW f \in Product,
           setter' = [setter EXCEPT ![s] = [step |-> "clear", file |-> f]]
    PROVE  /\ setter' \in [Run -> SetterRow]
           /\ setter'[s].step = "clear" /\ setter'[s].file = f
           /\ \A o \in Run : o # s => setter'[o] = setter[o]
<1>1. PICK x : x = [step |-> "clear", file |-> f]
  OBVIOUS
<1>2. x \in SetterRow /\ x.step = "clear" /\ x.file = f
  BY <1>1 DEF SetterRow
<1>3. setter' = [setter EXCEPT ![s] = x]
  BY <1>1
<1> QED BY <1>2, <1>3

FileTypes ==
    /\ fileRow \in [Product -> {"none", "bare", "linked", "gone"}]
    /\ object \in [Product -> BOOLEAN]
    /\ creation \in [Product -> {"idle", "upload", "link", "unlink", "undo", "done", "failed"}]
    /\ deletion \in [Product -> {"idle", "row", "row only", "object", "done", "failed"}]
    /\ fileFaults \in Nat /\ tornLink \subseteq Product
    /\ spoilt \subseteq Product /\ early \subseteq Product

LEMMA StoreTypes == /\ F!TypeOK <=> FileTypes /\ primary \subseteq Product /\ setter \in [Run -> SetterRow]
                    /\ F!TypeOK' <=> FileTypes' /\ primary' \subseteq Product /\ setter' \in [Run -> SetterRow]
  BY DEF F!TypeOK, FileTypes, SetterRow

FileSame(f) ==
    /\ fileRow'[f] = fileRow[f] /\ (object'[f] <=> object[f])
    /\ creation'[f] = creation[f] /\ deletion'[f] = deletion[f]
    /\ (f \in tornLink' <=> f \in tornLink) /\ (f \in spoilt' <=> f \in spoilt)
    /\ (f \in early' <=> f \in early)

LEMMA StoreSame ==
    ASSUME NEW f, FileSame(f), F!Linking(f), F!Untroubled(f)
    PROVE  F!Linking(f)' /\ F!Untroubled(f)'
  BY DEF FileSame, F!Linking, F!Untroubled

\* What a step does to the file it is about.
FileStep(f) ==
    \/ F!Insert(f) \/ F!Upload(f) \/ F!Link(f) \/ F!Unlink(f) \/ F!Undo(f) \/ F!DieMaking(f)
    \/ F!Look(f) \/ F!Drop(f) \/ F!Sweep(f)

LEMMA StoreOthers ==
    ASSUME FileTypes, primary \subseteq Product, NEW f \in Product, FileStep(f)
    PROVE  /\ FileTypes' /\ setter' = setter
           /\ primary' = primary \/ (primary' = primary \ {f} /\ fileRow'[f] = "gone")
           /\ \A g \in Product : g # f => FileSame(g)
<1>f. F!Fault(f) => fileFaults' \in Nat /\ fileFaults' # 0 /\ spoilt' = spoilt \cup {f}
  BY StoreFault DEF FileTypes
<1> USE DEF FileTypes, FileSame
<1>1. CASE F!Insert(f)
  BY <1>f, <1>1 DEF F!Insert, F!Making, F!NoFault
<1>2. CASE F!Upload(f)
  BY <1>f, <1>2 DEF F!Upload, F!Making, F!Store, F!KeepRow, F!NoFault
<1>3. CASE F!Link(f)
  BY <1>f, <1>3 DEF F!Link, F!Making, F!NoFault
<1>4. CASE F!Unlink(f)
  BY <1>f, <1>4 DEF F!Unlink, F!Making, F!Store, F!KeepRow, F!NoFault
<1>5. CASE F!Undo(f)
  BY <1>f, <1>5 DEF F!Undo, F!Making, F!DeleteRow, F!KeepRow, F!NoFault
<1>6. CASE F!DieMaking(f)
  BY <1>f, <1>6 DEF F!DieMaking, F!Making, F!KeepRow
<1>7. CASE F!Look(f)
  BY <1>f, <1>7 DEF F!Look, F!Exists, F!Deleting, F!KeepRow, F!NoFault
<1>8. CASE F!Drop(f)
  BY <1>f, <1>8 DEF F!Drop, F!Deleting, F!DeleteRow, F!KeepRow, F!NoFault
<1>9. CASE F!Sweep(f)
  BY <1>f, <1>9 DEF F!Sweep, F!Deleting, F!Store, F!KeepRow, F!NoFault
<1> QED BY <1>1, <1>2, <1>3, <1>4, <1>5, <1>6, <1>7, <1>8, <1>9 DEF FileStep

LEMMA StoreFile ==
    ASSUME FileTypes, NEW f \in Product, F!Linking(f), F!Untroubled(f), FileStep(f)
    PROVE  F!Linking(f)' /\ F!Untroubled(f)'
<1>f. F!Fault(f) => fileFaults' \in Nat /\ fileFaults' # 0 /\ spoilt' = spoilt \cup {f}
  BY StoreFault DEF FileTypes
<1> USE DEF FileTypes, F!Linking, F!Untroubled
<1>1. CASE F!Insert(f)
  BY <1>f, <1>1 DEF F!Insert, F!Making, F!NoFault
<1>2. CASE F!Upload(f)
  BY <1>f, <1>2 DEF F!Upload, F!Making, F!Store, F!KeepRow, F!NoFault
<1>3. CASE F!Link(f)
  BY <1>f, <1>3 DEF F!Link, F!Making, F!NoFault
<1>4. CASE F!Unlink(f)
  BY <1>f, <1>4 DEF F!Unlink, F!Making, F!Store, F!KeepRow, F!NoFault
<1>5. CASE F!Undo(f)
  BY <1>f, <1>5 DEF F!Undo, F!Making, F!DeleteRow, F!KeepRow, F!NoFault
<1>6. CASE F!DieMaking(f)
  BY <1>f, <1>6 DEF F!DieMaking, F!Making, F!KeepRow
<1>7. CASE F!Look(f)
  BY <1>f, <1>7 DEF F!Look, F!Exists, F!Deleting, F!KeepRow, F!NoFault
<1>8. CASE F!Drop(f)
  BY <1>f, <1>8 DEF F!Drop, F!Deleting, F!DeleteRow, F!KeepRow, F!NoFault
<1>9. CASE F!Sweep(f)
  BY <1>f, <1>9 DEF F!Sweep, F!Deleting, F!Store, F!KeepRow, F!NoFault
<1> QED BY <1>1, <1>2, <1>3, <1>4, <1>5, <1>6, <1>7, <1>8, <1>9 DEF FileStep

LEMMA StoreOnward ==
    ASSUME FileTypes, NEW f \in Product, F!Linking(f), FileStep(f)
    PROVE  /\ fileRow[f] # "none" => fileRow'[f] # "none"
           /\ fileRow[f] = "gone" => fileRow'[f] = "gone"
           /\ fileFaults # 0 => fileFaults' # 0
<1>f. F!Fault(f) => fileFaults' \in Nat /\ fileFaults' # 0 /\ spoilt' = spoilt \cup {f}
  BY StoreFault DEF FileTypes
<1> USE DEF FileTypes, F!Linking
<1>1. CASE F!Insert(f)
  BY <1>f, <1>1 DEF F!Insert, F!Making, F!NoFault
<1>2. CASE F!Upload(f)
  BY <1>f, <1>2 DEF F!Upload, F!Making, F!Store, F!KeepRow, F!NoFault
<1>3. CASE F!Link(f)
  BY <1>f, <1>3 DEF F!Link, F!Making, F!NoFault
<1>4. CASE F!Unlink(f)
  BY <1>f, <1>4 DEF F!Unlink, F!Making, F!Store, F!KeepRow, F!NoFault
<1>5. CASE F!Undo(f)
  BY <1>f, <1>5 DEF F!Undo, F!Making, F!DeleteRow, F!KeepRow, F!NoFault
<1>6. CASE F!DieMaking(f)
  BY <1>f, <1>6 DEF F!DieMaking, F!Making, F!KeepRow
<1>7. CASE F!Look(f)
  BY <1>f, <1>7 DEF F!Look, F!Exists, F!Deleting, F!KeepRow, F!NoFault
<1>8. CASE F!Drop(f)
  BY <1>f, <1>8 DEF F!Drop, F!Deleting, F!DeleteRow, F!KeepRow, F!NoFault
<1>9. CASE F!Sweep(f)
  BY <1>f, <1>9 DEF F!Sweep, F!Deleting, F!Store, F!KeepRow, F!NoFault
<1> QED BY <1>1, <1>2, <1>3, <1>4, <1>5, <1>6, <1>7, <1>8, <1>9 DEF FileStep

LEMMA StoreStep == F!StoreInv /\ [F!Next]_(F!vars) => F!StoreInv'
<1> SUFFICES ASSUME F!StoreInv, [F!Next]_(F!vars) PROVE F!StoreInv'
  OBVIOUS
<1>1. /\ FileTypes /\ primary \subseteq Product /\ setter \in [Run -> SetterRow]
      /\ F!Choosing /\ \A f \in Product : F!Linking(f) /\ F!Untroubled(f)
  BY StoreTypes DEF F!StoreInv
<1>2. ASSUME NEW f \in Product, FileStep(f) PROVE F!StoreInv'
  <2>1. /\ FileTypes' /\ setter' = setter
        /\ primary' = primary \/ (primary' = primary \ {f} /\ fileRow'[f] = "gone")
        /\ F!Linking(f)' /\ F!Untroubled(f)'
        /\ fileRow[f] # "none" => fileRow'[f] # "none"
        /\ fileRow[f] = "gone" => fileRow'[f] = "gone"
        /\ fileFaults # 0 => fileFaults' # 0
        /\ \A g \in Product : g # f => FileSame(g)
    BY <1>1, <1>2, StoreOthers, StoreFile, StoreOnward
  <2>2. \A g \in Product : F!Linking(g)' /\ F!Untroubled(g)'
    BY <1>1, <2>1, StoreSame
  <2>3. F!TypeOK'
    BY <1>1, <2>1, StoreTypes
  <2>4. F!Choosing'
    <3>1. \A g \in Product : /\ fileRow[g] # "none" => fileRow'[g] # "none"
                             /\ fileRow[g] = "gone" => fileRow'[g] = "gone"
      BY <2>1 DEF FileSame
    <3>2. (\A g \in Product : fileRow'[g] # "gone") => primary' = primary
      BY <2>1
    <3> QED BY <1>1, <2>1, <3>1, <3>2 DEF F!Choosing
  <2> QED BY <2>2, <2>3, <2>4 DEF F!StoreInv
<1>3. ASSUME NEW s \in Run,
             (\E f \in Product : F!Pick(s, f)) \/ F!Clear(s) \/ F!SetPrimary(s) \/ F!DieSetting(s)
      PROVE  F!StoreInv'
  <2>1. /\ fileRow' = fileRow /\ object' = object /\ creation' = creation /\ deletion' = deletion
        /\ tornLink' = tornLink /\ early' = early
    BY <1>3 DEF F!Pick, F!Clear, F!SetPrimary, F!DieSetting, F!Setting
  <2>2. setter[s] \in SetterRow
    BY <1>1
  <2>3. /\ fileFaults' \in Nat /\ spoilt \subseteq spoilt' /\ spoilt' \subseteq Product
        /\ primary' \subseteq Product /\ setter' \in [Run -> SetterRow]
    <3>1. CASE \E f \in Product : F!Pick(s, f)
      BY <1>1, <3>1, SetterBegins DEF F!Pick, F!NoFault, FileTypes
    <3>2. CASE F!Clear(s)
      BY <1>1, <3>2, SetterMoves DEF F!Clear, F!Setting, F!NoFault, FileTypes
    <3>3. CASE F!SetPrimary(s)
      <4>1. setter[s].step = "set" => setter[s].file \in Product
        BY <1>1 DEF F!Choosing
      <4> QED BY <1>1, <3>3, <4>1, SetterMoves DEF F!SetPrimary, F!Setting, F!NoFault, FileTypes
    <3>4. CASE F!DieSetting(s)
      <4>1. setter[s].file \in Product
        BY <1>1, <3>4 DEF F!DieSetting, F!Choosing
      <4>2. setter' \in [Run -> SetterRow]
        BY <1>1, <3>4, SetterMoves DEF F!DieSetting, F!Setting
      <4>3. fileFaults \in Nat /\ F!Fault(setter[s].file) /\ primary' = primary /\ spoilt \subseteq Product
        BY <1>1, <3>4 DEF F!DieSetting, FileTypes
      <4>4. fileFaults' \in Nat /\ spoilt' = spoilt \cup {setter[s].file}
        BY <4>3, StoreFault
      <4> QED BY <1>1, <4>1, <4>2, <4>3, <4>4
    <3> QED BY <1>3, <3>1, <3>2, <3>3, <3>4
  <2>4. F!TypeOK'
    BY <1>1, <2>1, <2>3, StoreTypes DEF FileTypes
  <2>5. \A f \in Product : F!Linking(f)' /\ F!Untroubled(f)'
    BY <1>1, <2>1, <2>3 DEF F!Linking, F!Untroubled
  <2>6. F!Choosing'
    <3>1. CASE \E f \in Product : F!Pick(s, f)
      <4>1. PICK f \in Product : F!Pick(s, f)
        BY <3>1
      <4>2. /\ setter'[s].step = "clear" /\ setter'[s].file = f
            /\ \A o \in Run : o # s => setter'[o] = setter[o]
        BY <1>1, <4>1, SetterBegins DEF F!Pick
      <4>3. fileRow[f] # "none" /\ primary' = primary /\ fileFaults' = fileFaults
            /\ setter[s].step \in {"idle", "failed"}
        BY <4>1 DEF F!Pick, F!Exists, F!NoFault
      <4> QED BY <1>1, <2>1, <4>2, <4>3 DEF F!Choosing
    <3>2. CASE F!Clear(s)
      <4>1. /\ setter'[s].step = "set" /\ setter'[s].file = setter[s].file
            /\ \A o \in Run : o # s => setter'[o] = setter[o]
        BY <1>1, <3>2, SetterMoves DEF F!Clear, F!Setting
      <4>2. setter[s].step = "clear"
        BY <3>2 DEF F!Clear, F!Setting
      <4> QED BY <1>1, <2>1, <4>1, <4>2 DEF F!Choosing
    <3>3. CASE F!SetPrimary(s)
      <4>1. setter[s].step = "set"
        BY <3>3 DEF F!SetPrimary, F!Setting
      <4>2. \E to \in {"done", "failed"} : setter' = [setter EXCEPT ![s].step = to]
        BY <3>3 DEF F!SetPrimary, F!Setting
      <4>3. /\ setter'[s].step # "set" /\ setter'[s].step # "clear"
            /\ \A o \in Run : o # s => setter'[o] = setter[o]
        BY <1>1, <4>2, SetterMoves
      <4>4. setter[s].file \in Product /\ fileRow[setter[s].file] # "none"
        BY <1>1, <4>1 DEF F!Choosing
      <4>5. primary' # {} \/ fileRow[setter[s].file] = "gone"
        BY <1>1, <3>3, <4>4 DEF F!SetPrimary, F!Exists, FileTypes
      <4> QED BY <1>1, <2>1, <4>3, <4>4, <4>5 DEF F!Choosing
    <3>4. CASE F!DieSetting(s)
      <4>1. setter' = [setter EXCEPT ![s].step = "failed"]
        BY <3>4 DEF F!DieSetting, F!Setting
      <4>2. /\ setter'[s].step = "failed"
            /\ \A o \in Run : o # s => setter'[o] = setter[o]
        BY <1>1, <4>1, SetterMoves
      <4>3. fileFaults' # 0
        BY <1>1, <3>4, StoreFault DEF F!DieSetting, FileTypes
      <4> QED BY <1>1, <2>1, <4>2, <4>3 DEF F!Choosing
    <3> QED BY <1>3, <3>1, <3>2, <3>3, <3>4
  <2> QED BY <2>4, <2>5, <2>6 DEF F!StoreInv
<1>4. CASE UNCHANGED F!vars
  BY <1>4 DEF F!StoreInv, F!TypeOK, F!Choosing, F!Linking, F!Untroubled, F!vars
<1> QED BY <1>2, <1>3, <1>4 DEF F!Next, FileStep

LEMMA StoreInit == F!Init => F!StoreInv
<1> SUFFICES ASSUME F!Init PROVE F!StoreInv
  OBVIOUS
<1>1. setter = [s \in Run |-> [step |-> "idle", file |-> CHOOSE f \in Product : TRUE]]
  BY DEF F!Init
<1>2. setter \in [Run -> SetterRow]
  BY <1>1 DEF SetterRow
<1>3. \A s \in Run : setter[s].step = "idle"
  BY <1>1
<1>4. F!TypeOK
  BY <1>2 DEF F!Init, F!TypeOK, SetterRow
<1>5. F!Choosing
  BY <1>3 DEF F!Choosing
<1>6. \A f \in Product : F!Linking(f) /\ F!Untroubled(f)
  BY DEF F!Init, F!Linking, F!Untroubled
<1> QED BY <1>4, <1>5, <1>6 DEF F!StoreInv

LEMMA StoreSuffices == F!StoreInv => F!FilesMatchRows /\ F!PrimaryStays
<1> SUFFICES ASSUME F!StoreInv PROVE F!FilesMatchRows /\ F!PrimaryStays
  OBVIOUS
<1>1. F!FilesMatchRows
  BY DEF F!StoreInv, F!TypeOK, F!Linking, F!Untroubled, F!FilesMatchRows, F!Exists, F!Rests
<1>2. F!PrimaryStays
  BY DEF F!StoreInv, F!TypeOK, F!Choosing, F!PrimaryStays, F!Rests
<1> QED BY <1>1, <1>2

(***************************************************************************)
(* The archive of a quote.                                                 *)
(***************************************************************************)

ArchiveStep == {"idle", "look", "check", "remove", "drop", "insert", "upload", "undo", "reread",
                "recheck", "done", "failed"}
ArchiveRow == [step : ArchiveStep, row : Nat, alone : BOOLEAN]

LEMMA ArchiveFault == archiveFaults \in Nat /\ X!Fault => archiveFaults' \in Nat
  BY DEF X!Fault

\* Where request r has gone and with which row; nobody becomes alone by another's step.
Gone(r, step, n) ==
    /\ archiver' \in [Run -> ArchiveRow]
    /\ archiver'[r].step = step /\ archiver'[r].row = n
    /\ \A o \in Run : o # r =>
          archiver'[o].step = archiver[o].step /\ archiver'[o].row = archiver[o].row
    /\ \A o \in Run : archiver'[o].alone => archiver[o].alone

LEMMA ArchiveTo ==
    ASSUME archiver \in [Run -> ArchiveRow], NEW r \in Run, NEW step \in ArchiveStep, X!To(r, step)
    PROVE  Gone(r, step, archiver[r].row)
<1>1. PICK x : x = [archiver[r] EXCEPT !.step = step]
  OBVIOUS
<1>2. x \in ArchiveRow /\ x.step = step /\ x.row = archiver[r].row /\ (x.alone <=> archiver[r].alone)
  BY <1>1 DEF ArchiveRow
<1>3. archiver' = [archiver EXCEPT ![r] = x]
  BY <1>1 DEF X!To
<1> QED BY <1>2, <1>3 DEF Gone

LEMMA ArchiveToWith ==
    ASSUME archiver \in [Run -> ArchiveRow], NEW r \in Run, NEW step \in ArchiveStep,
           NEW n \in Nat, X!ToWith(r, step, n)
    PROVE  Gone(r, step, n)
<1>1. PICK x : x = [archiver[r] EXCEPT !.step = step, !.row = n]
  OBVIOUS
<1>2. x \in ArchiveRow /\ x.step = step /\ x.row = n /\ (x.alone <=> archiver[r].alone)
  BY <1>1 DEF ArchiveRow
<1>3. archiver' = [archiver EXCEPT ![r] = x]
  BY <1>1 DEF X!ToWith
<1> QED BY <1>2, <1>3 DEF Gone

LEMMA ArchiveSpoils ==
    ASSUME NEW f \in [Run -> ArchiveRow], archiver' = X!Spoilt(f)
    PROVE  /\ archiver' \in [Run -> ArchiveRow]
           /\ \A o \in Run : /\ archiver'[o].step = f[o].step /\ archiver'[o].row = f[o].row
                             /\ ~archiver'[o].alone
<1>1. archiver' = [o \in Run |-> [f[o] EXCEPT !.alone = FALSE]]
  BY DEF X!Spoilt
<1>2. ASSUME NEW o \in Run
      PROVE  /\ archiver'[o] \in ArchiveRow
             /\ archiver'[o].step = f[o].step /\ archiver'[o].row = f[o].row
             /\ ~archiver'[o].alone
  <2>1. PICK x : x = [f[o] EXCEPT !.alone = FALSE]
    OBVIOUS
  <2>2. x \in ArchiveRow /\ x.step = f[o].step /\ x.row = f[o].row /\ x.alone = FALSE
    BY <2>1 DEF ArchiveRow
  <2>3. archiver'[o] = x
    BY <1>1, <2>1
  <2> QED BY <2>2, <2>3
<1> QED BY <1>1, <1>2

\* A fault takes a request on and leaves nobody alone.
LEMMA ArchiveFaulted ==
    ASSUME archiver \in [Run -> ArchiveRow], NEW r \in Run, NEW step \in ArchiveStep,
           archiver' = X!Spoilt([archiver EXCEPT ![r].step = step])
    PROVE  Gone(r, step, archiver[r].row) /\ \A o \in Run : ~archiver'[o].alone
<1>1. PICK x : x = [archiver[r] EXCEPT !.step = step]
  OBVIOUS
<1>2. x \in ArchiveRow /\ x.step = step /\ x.row = archiver[r].row
  BY <1>1 DEF ArchiveRow
<1>3. PICK f : f = [archiver EXCEPT ![r] = x]
  OBVIOUS
<1>4. /\ f \in [Run -> ArchiveRow] /\ f[r] = x /\ \A o \in Run : o # r => f[o] = archiver[o]
      /\ archiver' = X!Spoilt(f)
  BY <1>1, <1>2, <1>3
<1> QED BY <1>2, <1>4, ArchiveSpoils DEF Gone

ArchiveTypes ==
    /\ row \in Nat /\ written \in Nat /\ archiver \in [Run -> ArchiveRow] /\ archiveFaults \in Nat
    /\ file \in BOOLEAN /\ accepted \in BOOLEAN /\ torn \in BOOLEAN /\ raced \in BOOLEAN

LEMMA ArchiveTypesOK == (X!TypeOK <=> ArchiveTypes) /\ (X!TypeOK' <=> ArchiveTypes')
  BY DEF X!TypeOK, ArchiveTypes, ArchiveRow, ArchiveStep

\* What a step keeps.
ArchiveKept == /\ X!Owned' /\ (~raced' => \A r \in Run : X!At(r, "done")' => file')
               /\ (~raced' /\ ~torn' => X!Kept' /\ X!Alone')

LEMMA ArchiveLook ==
    ASSUME X!ArchiveInv, ArchiveTypes, NEW r \in Run, X!Look(r)
    PROVE  ArchiveTypes' /\ ArchiveKept
<1>1. /\ \/ row = 0 /\ Gone(r, "insert", archiver[r].row)
         \/ row # 0 /\ Gone(r, "check", row)
      /\ X!At(r, "look")
      /\ row' = row /\ written' = written /\ file' = file /\ torn' = torn /\ raced' = raced
      /\ accepted' = accepted /\ archiveFaults' = archiveFaults
  BY ArchiveTo, ArchiveToWith DEF X!Look, ArchiveTypes, ArchiveRow, ArchiveStep
<1>2. X!Owned'
  BY <1>1 DEF X!ArchiveInv, ArchiveTypes, ArchiveRow, X!Owned, X!Owns, X!At, Gone
<1>3. ~raced' => \A s \in Run : X!At(s, "done")' => file'
  BY <1>1 DEF X!ArchiveInv, ArchiveTypes, X!At, Gone
<1>4. ~raced' /\ ~torn' => X!Kept'
  BY <1>1 DEF X!ArchiveInv, ArchiveTypes, X!Kept, X!Owned, X!Owns, X!At, X!Uploads, Gone
<1>5. ~raced' /\ ~torn' => X!Alone'
  BY <1>1 DEF X!ArchiveInv, ArchiveTypes, X!Kept, X!Alone, X!Straight, X!Owned, X!Owns, X!Active, X!At, X!Uploads, Gone
<1> QED BY <1>1, <1>2, <1>3, <1>4, <1>5 DEF ArchiveTypes, ArchiveKept, Gone

LEMMA ArchivePresent ==
    ASSUME X!ArchiveInv, ArchiveTypes, NEW r \in Run, X!Present(r)
    PROVE  ArchiveTypes' /\ ArchiveKept
<1>1. /\ Gone(r, "done", archiver[r].row) /\ X!At(r, "check") /\ file
      /\ row' = row /\ written' = written /\ file' = file /\ torn' = torn /\ raced' = raced
      /\ accepted' = accepted /\ archiveFaults' = archiveFaults
  BY ArchiveTo DEF X!Present, ArchiveTypes, ArchiveStep
<1>2. X!Owned'
  BY <1>1 DEF X!ArchiveInv, ArchiveTypes, ArchiveRow, X!Owned, X!Owns, X!At, Gone
<1>3. ~raced' => \A s \in Run : X!At(s, "done")' => file'
  BY <1>1 DEF X!ArchiveInv, ArchiveTypes, X!At, Gone
<1>4. ~raced' /\ ~torn' => X!Kept'
  BY <1>1 DEF X!ArchiveInv, ArchiveTypes, X!Kept, X!Owned, X!Owns, X!At, X!Uploads, Gone
<1>5. ~raced' /\ ~torn' => X!Alone'
  BY <1>1 DEF X!ArchiveInv, ArchiveTypes, X!Kept, X!Alone, X!Straight, X!Owned, X!Owns, X!Active, X!At, X!Uploads, Gone
<1> QED BY <1>1, <1>2, <1>3, <1>4, <1>5 DEF ArchiveTypes, ArchiveKept, Gone

LEMMA ArchiveMissing ==
    ASSUME X!ArchiveInv, ArchiveTypes, NEW r \in Run, X!Missing(r)
    PROVE  ArchiveTypes' /\ ArchiveKept
<1>1. /\ Gone(r, "remove", archiver[r].row) /\ X!At(r, "check") /\ ~file
      /\ row' = row /\ written' = written /\ file' = file /\ torn' = torn /\ raced' = raced
      /\ accepted' = accepted /\ archiveFaults' = archiveFaults
  BY ArchiveTo DEF X!Missing, ArchiveTypes, ArchiveStep
<1>2. X!Owned'
  BY <1>1 DEF X!ArchiveInv, ArchiveTypes, ArchiveRow, X!Owned, X!Owns, X!At, Gone
<1>3. ~raced' => \A s \in Run : X!At(s, "done")' => file'
  BY <1>1 DEF X!ArchiveInv, ArchiveTypes, X!At, Gone
<1>4. ~raced' /\ ~torn' => X!Kept'
  BY <1>1 DEF X!ArchiveInv, ArchiveTypes, X!Kept, X!Owned, X!Owns, X!At, X!Uploads, Gone
<1>5. ~raced' /\ ~torn' => X!Alone'
  BY <1>1 DEF X!ArchiveInv, ArchiveTypes, X!Kept, X!Alone, X!Straight, X!Owned, X!Owns, X!Active, X!At, X!Uploads, Gone
<1> QED BY <1>1, <1>2, <1>3, <1>4, <1>5 DEF ArchiveTypes, ArchiveKept, Gone

LEMMA ArchiveUnknown ==
    ASSUME X!ArchiveInv, ArchiveTypes, NEW r \in Run, X!Unknown(r)
    PROVE  ArchiveTypes' /\ ArchiveKept
<1>1. /\ Gone(r, "failed", archiver[r].row) /\ (\A o \in Run : ~archiver'[o].alone) /\ X!At(r, "check")
      /\ row' = row /\ written' = written /\ file' = file /\ torn' = torn /\ raced' = raced
      /\ accepted' = accepted /\ archiveFaults' \in Nat
  BY ArchiveFaulted, ArchiveFault DEF X!Unknown, ArchiveTypes, ArchiveStep
<1>2. X!Owned'
  BY <1>1 DEF X!ArchiveInv, ArchiveTypes, ArchiveRow, X!Owned, X!Owns, X!At, Gone
<1>3. ~raced' => \A s \in Run : X!At(s, "done")' => file'
  BY <1>1 DEF X!ArchiveInv, ArchiveTypes, X!At, Gone
<1>4. ~raced' /\ ~torn' => X!Kept'
  BY <1>1 DEF X!ArchiveInv, ArchiveTypes, X!Kept, X!Owned, X!Owns, X!At, X!Uploads, Gone
<1>5. ~raced' /\ ~torn' => X!Alone'
  BY <1>1 DEF X!ArchiveInv, ArchiveTypes, X!Kept, X!Alone, X!Straight, X!Owned, X!Owns, X!Active, X!At, X!Uploads, Gone
<1> QED BY <1>1, <1>2, <1>3, <1>4, <1>5 DEF ArchiveTypes, ArchiveKept, Gone

LEMMA ArchiveDie ==
    ASSUME X!ArchiveInv, ArchiveTypes, NEW r \in Run, X!Die(r)
    PROVE  ArchiveTypes' /\ ArchiveKept
<1>1. /\ Gone(r, "failed", archiver[r].row) /\ (\A o \in Run : ~archiver'[o].alone) /\ X!Active(r)
      /\ row' = row /\ written' = written /\ file' = file /\ torn' = torn /\ raced' = raced
      /\ accepted' = accepted /\ archiveFaults' \in Nat
  BY ArchiveFaulted, ArchiveFault DEF X!Die, ArchiveTypes, ArchiveStep
<1>2. X!Owned'
  BY <1>1 DEF X!ArchiveInv, ArchiveTypes, ArchiveRow, X!Owned, X!Owns, X!At, Gone
<1>3. ~raced' => \A s \in Run : X!At(s, "done")' => file'
  BY <1>1 DEF X!ArchiveInv, ArchiveTypes, X!At, Gone
<1>4. ~raced' /\ ~torn' => X!Kept'
  BY <1>1 DEF X!ArchiveInv, ArchiveTypes, X!Kept, X!Owned, X!Owns, X!At, X!Uploads, Gone
<1>5. ~raced' /\ ~torn' => X!Alone'
  BY <1>1 DEF X!ArchiveInv, ArchiveTypes, X!Kept, X!Alone, X!Straight, X!Owned, X!Owns, X!Active, X!At, X!Uploads, Gone
<1> QED BY <1>1, <1>2, <1>3, <1>4, <1>5 DEF ArchiveTypes, ArchiveKept, Gone

LEMMA ArchiveRemove ==
    ASSUME X!ArchiveInv, ArchiveTypes, NEW r \in Run, X!Remove(r)
    PROVE  ArchiveTypes' /\ ArchiveKept
<1>1. CASE X!Remove(r) /\ X!To(r, "drop") /\ file' = FALSE /\ UNCHANGED archiveFaults
  <2>1. /\ Gone(r, "drop", archiver[r].row) /\ X!At(r, "remove") /\ ~file' /\ file' \in BOOLEAN
        /\ row' = row /\ written' = written /\ torn' = torn /\ raced' = (raced \/ file)
        /\ accepted' = accepted /\ archiveFaults' = archiveFaults
    BY <1>1, ArchiveTo DEF X!Remove, ArchiveTypes, ArchiveStep
  <2>2. X!Owned'
    BY <2>1 DEF X!ArchiveInv, ArchiveTypes, ArchiveRow, X!Owned, X!Owns, X!At, Gone
  <2>3. ~raced' => \A s \in Run : X!At(s, "done")' => file'
    BY <2>1 DEF X!ArchiveInv, ArchiveTypes, X!At, Gone
  <2>4. ~raced' /\ ~torn' => X!Kept'
    BY <2>1 DEF X!ArchiveInv, ArchiveTypes, X!Kept, X!Owned, X!Owns, X!At, X!Uploads, Gone
  <2>5. ~raced' /\ ~torn' => X!Alone'
    BY <2>1 DEF X!ArchiveInv, ArchiveTypes, X!Kept, X!Alone, X!Straight, X!Owned, X!Owns, X!Active, X!At, X!Uploads, Gone
  <2> QED BY <2>1, <2>2, <2>3, <2>4, <2>5 DEF ArchiveTypes, ArchiveKept, Gone
<1>2. CASE X!Remove(r) /\ file' = file /\ X!Fault /\ archiver' = X!Spoilt([archiver EXCEPT ![r].step = "drop"])
  <2>1. /\ Gone(r, "drop", archiver[r].row) /\ (\A o \in Run : ~archiver'[o].alone)
        /\ X!At(r, "remove") /\ file' = file
        /\ row' = row /\ written' = written /\ torn' = torn /\ raced' = (raced \/ file)
        /\ accepted' = accepted /\ archiveFaults' \in Nat
    BY <1>2, ArchiveFaulted, ArchiveFault DEF X!Remove, ArchiveTypes, ArchiveStep
  <2>2. X!Owned'
    BY <2>1 DEF X!ArchiveInv, ArchiveTypes, ArchiveRow, X!Owned, X!Owns, X!At, Gone
  <2>3. ~raced' => \A s \in Run : X!At(s, "done")' => file'
    BY <2>1 DEF X!ArchiveInv, ArchiveTypes, X!At, Gone
  <2>4. ~raced' /\ ~torn' => X!Kept'
    BY <2>1 DEF X!ArchiveInv, ArchiveTypes, X!Kept, X!Owned, X!Owns, X!At, X!Uploads, Gone
  <2>5. ~raced' /\ ~torn' => X!Alone'
    BY <2>1 DEF X!ArchiveInv, ArchiveTypes, X!Kept, X!Alone, X!Straight, X!Owned, X!Owns, X!Active, X!At, X!Uploads, Gone
  <2> QED BY <2>1, <2>2, <2>3, <2>4, <2>5 DEF ArchiveTypes, ArchiveKept, Gone
<1> QED BY <1>1, <1>2 DEF X!Remove

LEMMA ArchiveDrop ==
    ASSUME X!ArchiveInv, ArchiveTypes, NEW r \in Run, X!Drop(r)
    PROVE  ArchiveTypes' /\ ArchiveKept
<1>1. /\ Gone(r, "insert", archiver[r].row) /\ X!At(r, "drop") /\ file' = file
      /\ row' = (IF row = archiver[r].row THEN 0 ELSE row) /\ written' = written /\ torn' = torn
      /\ raced' = (raced \/ file \/ \E s \in Run : X!Uploads(s, archiver[r].row))
      /\ accepted' = accepted /\ archiveFaults' = archiveFaults
  BY ArchiveTo DEF X!Drop, X!DeleteRow, ArchiveTypes, ArchiveStep
<1>2. ~raced' => /\ ~raced /\ ~file
                 /\ \A s \in Run : ~(X!At(s, "upload") /\ archiver[s].row = archiver[r].row)
  BY <1>1 DEF X!Uploads
<1>3. X!Owned'
  BY <1>1, <1>2 DEF X!ArchiveInv, ArchiveTypes, ArchiveRow, X!Owned, X!Owns, X!At, Gone
<1>4. ~raced' => \A s \in Run : X!At(s, "done")' => file'
  BY <1>1, <1>2 DEF X!ArchiveInv, ArchiveTypes, X!At, Gone
<1>5. ~raced' /\ ~torn' => X!Kept'
  BY <1>1, <1>2 DEF X!ArchiveInv, ArchiveTypes, X!Kept, X!Owned, X!Owns, X!At, X!Uploads, Gone
<1>6. ~raced' /\ ~torn' => X!Alone'
  BY <1>1, <1>2 DEF X!ArchiveInv, ArchiveTypes, X!Kept, X!Alone, X!Straight, X!Owned, X!Owns, X!Active, X!At, X!Uploads, Gone
<1> QED BY <1>1, <1>2, <1>3, <1>4, <1>5, <1>6 DEF ArchiveTypes, ArchiveKept, Gone

LEMMA ArchiveInsert ==
    ASSUME X!ArchiveInv, ArchiveTypes, NEW r \in Run, X!Insert(r)
    PROVE  ArchiveTypes' /\ ArchiveKept
<1>1. CASE X!Insert(r) /\ row = 0 /\ written' = written + 1 /\ row' = written + 1
         /\ X!ToWith(r, "upload", written + 1) /\ UNCHANGED archiveFaults
  <2>1. /\ Gone(r, "upload", written + 1) /\ X!At(r, "insert") /\ file' = file
        /\ row = 0 /\ written' = written + 1 /\ row' = written + 1 /\ torn' = torn /\ raced' = raced
        /\ accepted' = accepted /\ archiveFaults' = archiveFaults
    BY <1>1, ArchiveToWith DEF X!Insert, ArchiveTypes, ArchiveStep
  <2>2. X!Owned'
    BY <2>1 DEF X!ArchiveInv, ArchiveTypes, ArchiveRow, X!Owned, X!Owns, X!At, Gone
  <2>3. ~raced' => \A s \in Run : X!At(s, "done")' => file'
    BY <2>1 DEF X!ArchiveInv, ArchiveTypes, X!At, Gone
  <2>4. ~raced' /\ ~torn' => X!Kept'
    BY <2>1 DEF X!ArchiveInv, ArchiveTypes, X!Kept, X!Owned, X!Owns, X!At, X!Uploads, Gone
  <2>5. ~raced' /\ ~torn' => X!Alone'
    BY <2>1 DEF X!ArchiveInv, ArchiveTypes, X!Kept, X!Alone, X!Straight, X!Owned, X!Owns, X!Active, X!At, X!Uploads, Gone
  <2> QED BY <2>1, <2>2, <2>3, <2>4, <2>5 DEF ArchiveTypes, ArchiveKept, Gone
<1>2. CASE X!Insert(r) /\ row # 0 /\ X!To(r, "reread") /\ UNCHANGED <<row, written, archiveFaults>>
  <2>1. /\ Gone(r, "reread", archiver[r].row) /\ X!At(r, "insert") /\ file' = file
        /\ row # 0 /\ row' = row /\ written' = written /\ torn' = torn /\ raced' = raced
        /\ accepted' = accepted /\ archiveFaults' = archiveFaults
    BY <1>2, ArchiveTo DEF X!Insert, ArchiveTypes, ArchiveStep
  <2>2. X!Owned'
    BY <2>1 DEF X!ArchiveInv, ArchiveTypes, ArchiveRow, X!Owned, X!Owns, X!At, Gone
  <2>3. ~raced' => \A s \in Run : X!At(s, "done")' => file'
    BY <2>1 DEF X!ArchiveInv, ArchiveTypes, X!At, Gone
  <2>4. ~raced' /\ ~torn' => X!Kept'
    BY <2>1 DEF X!ArchiveInv, ArchiveTypes, X!Kept, X!Owned, X!Owns, X!At, X!Uploads, Gone
  <2>5. ~raced' /\ ~torn' => X!Alone'
    BY <2>1 DEF X!ArchiveInv, ArchiveTypes, X!Kept, X!Alone, X!Straight, X!Owned, X!Owns, X!Active, X!At, X!Uploads, Gone
  <2> QED BY <2>1, <2>2, <2>3, <2>4, <2>5 DEF ArchiveTypes, ArchiveKept, Gone
<1>3. CASE /\ X!Insert(r) /\ X!Fault /\ archiver' = X!Spoilt([archiver EXCEPT ![r].step = "reread"])
           /\ (row = 0 /\ written' = written + 1 /\ row' = written + 1) \/ UNCHANGED <<row, written>>
  <2>1. X!At(r, "insert") /\ UNCHANGED <<file, accepted, torn, raced>>
    BY <1>3 DEF X!Insert
  <2>2. archiveFaults' \in Nat
    BY <1>3, ArchiveFault DEF ArchiveTypes
  <2>3. Gone(r, "reread", archiver[r].row) /\ \A o \in Run : ~archiver'[o].alone
    BY <1>3, ArchiveFaulted DEF ArchiveTypes, ArchiveStep
  <2>4. /\ Gone(r, "reread", archiver[r].row) /\ (\A o \in Run : ~archiver'[o].alone)
        /\ X!At(r, "insert") /\ file' = file /\ torn' = torn /\ raced' = raced
        /\ (row = 0 /\ written' = written + 1 /\ row' = written + 1) \/ (row' = row /\ written' = written)
        /\ accepted' = accepted /\ archiveFaults' \in Nat
    BY <1>3, <2>1, <2>2, <2>3
  <2>5. X!Owned'
    BY <2>4 DEF X!ArchiveInv, ArchiveTypes, ArchiveRow, X!Owned, X!Owns, X!At, Gone
  <2>6. ~raced' => \A s \in Run : X!At(s, "done")' => file'
    BY <2>4 DEF X!ArchiveInv, ArchiveTypes, X!At, Gone
  <2>7. ~raced' /\ ~torn' => X!Kept'
    BY <2>4 DEF X!ArchiveInv, ArchiveTypes, X!Kept, X!Owned, X!Owns, X!At, X!Uploads, Gone
  <2>8. ~raced' /\ ~torn' => X!Alone'
    BY <2>4 DEF X!ArchiveInv, ArchiveTypes, X!Kept, X!Alone, X!Straight, X!Owned, X!Owns, X!Active, X!At, X!Uploads, Gone
  <2> QED BY <2>4, <2>5, <2>6, <2>7, <2>8 DEF ArchiveTypes, ArchiveKept, Gone
<1> QED BY <1>1, <1>2, <1>3 DEF X!Insert

LEMMA ArchiveUpload ==
    ASSUME X!ArchiveInv, ArchiveTypes, NEW r \in Run, X!Upload(r)
    PROVE  ArchiveTypes' /\ ArchiveKept
<1>1. CASE X!Upload(r) /\ ~file /\ file' = TRUE /\ X!To(r, "done") /\ UNCHANGED <<archiveFaults, torn>>
  <2>1. /\ Gone(r, "done", archiver[r].row) /\ X!At(r, "upload") /\ ~file /\ file' /\ file' \in BOOLEAN
        /\ row' = row /\ written' = written /\ torn' = torn /\ raced' = raced
        /\ accepted' = accepted /\ archiveFaults' = archiveFaults
    BY <1>1, ArchiveTo DEF X!Upload, ArchiveTypes, ArchiveStep
  <2>2. X!Owned'
    BY <2>1 DEF X!ArchiveInv, ArchiveTypes, ArchiveRow, X!Owned, X!Owns, X!At, Gone
  <2>3. ~raced' => \A s \in Run : X!At(s, "done")' => file'
    BY <2>1 DEF X!ArchiveInv, ArchiveTypes, X!At, Gone
  <2>4. ~raced' /\ ~torn' => X!Kept'
    BY <2>1 DEF X!ArchiveInv, ArchiveTypes, X!Kept, X!Owned, X!Owns, X!At, X!Uploads, Gone
  <2>5. ~raced' /\ ~torn' => X!Alone'
    BY <2>1 DEF X!ArchiveInv, ArchiveTypes, X!Kept, X!Alone, X!Straight, X!Owned, X!Owns, X!Active, X!At, X!Uploads, Gone
  <2> QED BY <2>1, <2>2, <2>3, <2>4, <2>5 DEF ArchiveTypes, ArchiveKept, Gone
<1>2. CASE X!Upload(r) /\ file /\ X!To(r, "undo") /\ UNCHANGED <<file, archiveFaults, torn>>
  <2>1. /\ Gone(r, "undo", archiver[r].row) /\ X!At(r, "upload") /\ file /\ file' = file
        /\ row' = row /\ written' = written /\ torn' = torn /\ raced' = raced
        /\ accepted' = accepted /\ archiveFaults' = archiveFaults
    BY <1>2, ArchiveTo DEF X!Upload, ArchiveTypes, ArchiveStep
  <2>2. X!Owned'
    BY <2>1 DEF X!ArchiveInv, ArchiveTypes, ArchiveRow, X!Owned, X!Owns, X!At, Gone
  <2>3. ~raced' => \A s \in Run : X!At(s, "done")' => file'
    BY <2>1 DEF X!ArchiveInv, ArchiveTypes, X!At, Gone
  <2>4. ~raced' /\ ~torn' => X!Kept'
    BY <2>1 DEF X!ArchiveInv, ArchiveTypes, X!Kept, X!Owned, X!Owns, X!At, X!Uploads, Gone
  <2>5. ~raced' /\ ~torn' => X!Alone'
    BY <2>1 DEF X!ArchiveInv, ArchiveTypes, X!Kept, X!Alone, X!Straight, X!Owned, X!Owns, X!Active, X!At, X!Uploads, Gone
  <2> QED BY <2>1, <2>2, <2>3, <2>4, <2>5 DEF ArchiveTypes, ArchiveKept, Gone
<1>3. CASE /\ X!Upload(r) /\ X!Fault /\ archiver' = X!Spoilt([archiver EXCEPT ![r].step = "undo"])
           /\ UNCHANGED <<file, torn>> \/ (~file /\ file' = TRUE /\ torn' = TRUE)
  <2>1. X!At(r, "upload") /\ UNCHANGED <<row, written, accepted, raced>>
    BY <1>3 DEF X!Upload
  <2>2. archiveFaults' \in Nat
    BY <1>3, ArchiveFault DEF ArchiveTypes
  <2>3. Gone(r, "undo", archiver[r].row) /\ \A o \in Run : ~archiver'[o].alone
    BY <1>3, ArchiveFaulted DEF ArchiveTypes, ArchiveStep
  <2>4. /\ Gone(r, "undo", archiver[r].row) /\ (\A o \in Run : ~archiver'[o].alone) /\ X!At(r, "upload")
        /\ (file' = file /\ torn' = torn) \/ (~file /\ file' = TRUE /\ torn' = TRUE)
        /\ row' = row /\ written' = written /\ raced' = raced
        /\ accepted' = accepted /\ archiveFaults' \in Nat
    BY <1>3, <2>1, <2>2, <2>3
  <2>5. X!Owned'
    BY <2>4 DEF X!ArchiveInv, ArchiveTypes, ArchiveRow, X!Owned, X!Owns, X!At, Gone
  <2>6. ~raced' => \A s \in Run : X!At(s, "done")' => file'
    BY <2>4 DEF X!ArchiveInv, ArchiveTypes, X!At, Gone
  <2>7. ~raced' /\ ~torn' => X!Kept'
    BY <2>4 DEF X!ArchiveInv, ArchiveTypes, X!Kept, X!Owned, X!Owns, X!At, X!Uploads, Gone
  <2>8. ~raced' /\ ~torn' => X!Alone'
    BY <2>4 DEF X!ArchiveInv, ArchiveTypes, X!Kept, X!Alone, X!Straight, X!Owned, X!Owns, X!Active, X!At, X!Uploads, Gone
  <2> QED BY <2>4, <2>5, <2>6, <2>7, <2>8 DEF ArchiveTypes, ArchiveKept, Gone
<1> QED BY <1>1, <1>2, <1>3 DEF X!Upload

LEMMA ArchiveUndo ==
    ASSUME X!ArchiveInv, ArchiveTypes, NEW r \in Run, X!Undo(r)
    PROVE  ArchiveTypes' /\ ArchiveKept
<1>1. CASE X!Undo(r) /\ X!DeleteRow(archiver[r].row) /\ X!To(r, "reread") /\ UNCHANGED archiveFaults
  <2>1. /\ Gone(r, "reread", archiver[r].row) /\ X!At(r, "undo") /\ file' = file
        /\ row' = (IF row = archiver[r].row THEN 0 ELSE row) /\ written' = written /\ torn' = torn /\ raced' = raced
        /\ accepted' = accepted /\ archiveFaults' = archiveFaults
    BY <1>1, ArchiveTo DEF X!Undo, X!DeleteRow, ArchiveTypes, ArchiveStep
  <2>2. X!Owned'
    BY <2>1 DEF X!ArchiveInv, ArchiveTypes, ArchiveRow, X!Owned, X!Owns, X!At, Gone
  <2>3. ~raced' => \A s \in Run : X!At(s, "done")' => file'
    BY <2>1 DEF X!ArchiveInv, ArchiveTypes, X!At, Gone
  <2>4. ~raced' /\ ~torn' => X!Kept'
    BY <2>1 DEF X!ArchiveInv, ArchiveTypes, X!Kept, X!Owned, X!Owns, X!At, X!Uploads, Gone
  <2>5. ~raced' /\ ~torn' => X!Alone'
    BY <2>1 DEF X!ArchiveInv, ArchiveTypes, X!Kept, X!Alone, X!Straight, X!Owned, X!Owns, X!Active, X!At, X!Uploads, Gone
  <2> QED BY <2>1, <2>2, <2>3, <2>4, <2>5 DEF ArchiveTypes, ArchiveKept, Gone
<1>2. CASE X!Undo(r) /\ X!Fault /\ archiver' = X!Spoilt([archiver EXCEPT ![r].step = "reread"]) /\ UNCHANGED row
  <2>1. /\ Gone(r, "reread", archiver[r].row) /\ (\A o \in Run : ~archiver'[o].alone)
        /\ X!At(r, "undo") /\ file' = file
        /\ row' = row /\ written' = written /\ torn' = torn /\ raced' = raced
        /\ accepted' = accepted /\ archiveFaults' \in Nat
    BY <1>2, ArchiveFaulted, ArchiveFault DEF X!Undo, ArchiveTypes, ArchiveStep
  <2>2. X!Owned'
    BY <2>1 DEF X!ArchiveInv, ArchiveTypes, ArchiveRow, X!Owned, X!Owns, X!At, Gone
  <2>3. ~raced' => \A s \in Run : X!At(s, "done")' => file'
    BY <2>1 DEF X!ArchiveInv, ArchiveTypes, X!At, Gone
  <2>4. ~raced' /\ ~torn' => X!Kept'
    BY <2>1 DEF X!ArchiveInv, ArchiveTypes, X!Kept, X!Owned, X!Owns, X!At, X!Uploads, Gone
  <2>5. ~raced' /\ ~torn' => X!Alone'
    BY <2>1 DEF X!ArchiveInv, ArchiveTypes, X!Kept, X!Alone, X!Straight, X!Owned, X!Owns, X!Active, X!At, X!Uploads, Gone
  <2> QED BY <2>1, <2>2, <2>3, <2>4, <2>5 DEF ArchiveTypes, ArchiveKept, Gone
<1> QED BY <1>1, <1>2 DEF X!Undo

LEMMA ArchiveReread ==
    ASSUME X!ArchiveInv, ArchiveTypes, NEW r \in Run, X!Reread(r)
    PROVE  ArchiveTypes' /\ ArchiveKept
<1>1. /\ Gone(r, "failed", archiver[r].row) \/ Gone(r, "recheck", archiver[r].row)
      /\ X!At(r, "reread")
      /\ row' = row /\ written' = written /\ file' = file /\ torn' = torn /\ raced' = raced
      /\ accepted' = accepted /\ archiveFaults' = archiveFaults
  BY ArchiveTo DEF X!Reread, ArchiveTypes, ArchiveStep
<1>2. X!Owned'
  BY <1>1 DEF X!ArchiveInv, ArchiveTypes, ArchiveRow, X!Owned, X!Owns, X!At, Gone
<1>3. ~raced' => \A s \in Run : X!At(s, "done")' => file'
  BY <1>1 DEF X!ArchiveInv, ArchiveTypes, X!At, Gone
<1>4. ~raced' /\ ~torn' => X!Kept'
  BY <1>1 DEF X!ArchiveInv, ArchiveTypes, X!Kept, X!Owned, X!Owns, X!At, X!Uploads, Gone
<1>5. ~raced' /\ ~torn' => X!Alone'
  BY <1>1 DEF X!ArchiveInv, ArchiveTypes, X!Kept, X!Alone, X!Straight, X!Owned, X!Owns, X!Active, X!At, X!Uploads, Gone
<1> QED BY <1>1, <1>2, <1>3, <1>4, <1>5 DEF ArchiveTypes, ArchiveKept, Gone

LEMMA ArchiveRecheck ==
    ASSUME X!ArchiveInv, ArchiveTypes, NEW r \in Run, X!Recheck(r)
    PROVE  ArchiveTypes' /\ ArchiveKept
<1>1. /\ (file /\ Gone(r, "done", archiver[r].row)) \/ Gone(r, "failed", archiver[r].row)
      /\ X!At(r, "recheck")
      /\ row' = row /\ written' = written /\ file' = file /\ torn' = torn /\ raced' = raced
      /\ accepted' = accepted /\ archiveFaults' = archiveFaults
  BY ArchiveTo DEF X!Recheck, ArchiveTypes, ArchiveStep
<1>2. X!Owned'
  BY <1>1 DEF X!ArchiveInv, ArchiveTypes, ArchiveRow, X!Owned, X!Owns, X!At, Gone
<1>3. ~raced' => \A s \in Run : X!At(s, "done")' => file'
  BY <1>1 DEF X!ArchiveInv, ArchiveTypes, X!At, Gone
<1>4. ~raced' /\ ~torn' => X!Kept'
  BY <1>1 DEF X!ArchiveInv, ArchiveTypes, X!Kept, X!Owned, X!Owns, X!At, X!Uploads, Gone
<1>5. ~raced' /\ ~torn' => X!Alone'
  BY <1>1 DEF X!ArchiveInv, ArchiveTypes, X!Kept, X!Alone, X!Straight, X!Owned, X!Owns, X!Active, X!At, X!Uploads, Gone
<1> QED BY <1>1, <1>2, <1>3, <1>4, <1>5 DEF ArchiveTypes, ArchiveKept, Gone

LEMMA ArchiveBegin ==
    ASSUME X!ArchiveInv, ArchiveTypes, NEW r \in Run, X!Begin(r)
    PROVE  ArchiveTypes' /\ ArchiveKept
<1>1. PICK x : x = [step |-> "look", row |-> 0, alone |-> TRUE]
  OBVIOUS
<1>2. x \in ArchiveRow /\ x.step = "look" /\ x.row = 0 /\ x.alone
  BY <1>1 DEF ArchiveRow, ArchiveStep
<1>3. PICK f : f = [archiver EXCEPT ![r] = x]
  OBVIOUS
<1>4. f \in [Run -> ArchiveRow] /\ f[r] = x /\ \A o \in Run : o # r => f[o] = archiver[o]
  BY <1>2, <1>3 DEF ArchiveTypes
<1>5. /\ \/ archiver' = X!Spoilt(f)
         \/ archiver' = f /\ \A o \in Run \ {r} : ~X!Active(o)
      /\ ~X!Active(r)
      /\ row' = row /\ written' = written /\ file' = file /\ torn' = torn /\ raced' = raced
      /\ accepted' = accepted /\ archiveFaults' = archiveFaults
  BY <1>1, <1>3 DEF X!Begin
<1>6. /\ archiver' \in [Run -> ArchiveRow] /\ archiver'[r].step = "look" /\ archiver'[r].row = 0
      /\ \A o \in Run : o # r =>
            archiver'[o].step = archiver[o].step /\ archiver'[o].row = archiver[o].row
      /\ \/ \A o \in Run : ~archiver'[o].alone
         \/ /\ \A o \in Run : o # r => archiver'[o] = archiver[o]
            /\ \A o \in Run \ {r} : ~X!Active(o)
  BY <1>2, <1>4, <1>5, ArchiveSpoils
<1>7. X!Owned'
  BY <1>5, <1>6 DEF X!ArchiveInv, ArchiveTypes, ArchiveRow, X!Owned, X!Owns, X!At, Gone
<1>8. ~raced' => \A s \in Run : X!At(s, "done")' => file'
  BY <1>5, <1>6 DEF X!ArchiveInv, ArchiveTypes, X!At, Gone
<1>9. ~raced' /\ ~torn' => X!Kept'
  BY <1>5, <1>6 DEF X!ArchiveInv, ArchiveTypes, X!Kept, X!Owned, X!Owns, X!At, X!Uploads, Gone
<1>10. ~raced' /\ ~torn' => X!Alone'
  BY <1>5, <1>6 DEF X!ArchiveInv, ArchiveTypes, X!Kept, X!Alone, X!Straight, X!Owned, X!Owns, X!Active, X!At, X!Uploads, Gone
<1> QED BY <1>5, <1>6, <1>7, <1>8, <1>9, <1>10 DEF ArchiveTypes, ArchiveKept, Gone

LEMMA ArchiveAccept ==
    ASSUME X!ArchiveInv, ArchiveTypes, NEW r \in Run, X!Accept(r)
    PROVE  ArchiveTypes' /\ ArchiveKept
<1>1. /\ archiver' = archiver /\ accepted' \in BOOLEAN
      /\ row' = row /\ written' = written /\ file' = file /\ torn' = torn /\ raced' = raced
      /\ archiveFaults' = archiveFaults
  BY DEF X!Accept
<1>2. X!Owned'
  BY <1>1 DEF X!ArchiveInv, ArchiveTypes, ArchiveRow, X!Owned, X!Owns, X!At, Gone
<1>3. ~raced' => \A s \in Run : X!At(s, "done")' => file'
  BY <1>1 DEF X!ArchiveInv, ArchiveTypes, X!At, Gone
<1>4. ~raced' /\ ~torn' => X!Kept'
  BY <1>1 DEF X!ArchiveInv, ArchiveTypes, X!Kept, X!Owned, X!Owns, X!At, X!Uploads, Gone
<1>5. ~raced' /\ ~torn' => X!Alone'
  BY <1>1 DEF X!ArchiveInv, ArchiveTypes, X!Kept, X!Alone, X!Straight, X!Owned, X!Owns, X!Active, X!At, X!Uploads, Gone
<1> QED BY <1>1, <1>2, <1>3, <1>4, <1>5 DEF ArchiveTypes, ArchiveKept, Gone

LEMMA ArchiveStepKeeps == X!ArchiveInv /\ [X!Next]_(X!vars) => X!ArchiveInv'
<1> SUFFICES ASSUME X!ArchiveInv, [X!Next]_(X!vars) PROVE X!ArchiveInv'
  OBVIOUS
<1>1. ArchiveTypes
  BY ArchiveTypesOK DEF X!ArchiveInv
<1>2. ASSUME NEW r \in Run, X!Begin(r) \/ X!Step(r) \/ X!Accept(r)
      PROVE  ArchiveTypes' /\ ArchiveKept
  BY <1>1, <1>2, ArchiveBegin, ArchiveLook, ArchivePresent, ArchiveMissing, ArchiveUnknown,
     ArchiveRemove, ArchiveDrop, ArchiveInsert, ArchiveUpload, ArchiveUndo, ArchiveReread,
     ArchiveRecheck, ArchiveDie, ArchiveAccept DEF X!Step
<1>3. CASE X!Next
  BY <1>2, <1>3, ArchiveTypesOK DEF X!Next, X!ArchiveInv, ArchiveKept
<1>4. CASE UNCHANGED X!vars
  BY <1>4 DEF X!ArchiveInv, X!TypeOK, X!Owned, X!Kept, X!Alone, X!Straight, X!Owns, X!Active, X!At, X!vars
<1> QED BY <1>3, <1>4

LEMMA ArchiveInit == X!Init => X!ArchiveInv
<1> SUFFICES ASSUME X!Init PROVE X!ArchiveInv
  OBVIOUS
<1>1. archiver = [r \in Run |-> X!Idle]
  BY DEF X!Init
<1>2. /\ archiver \in [Run -> ArchiveRow]
      /\ \A r \in Run : archiver[r].step = "idle" /\ archiver[r].row = 0
  BY <1>1 DEF X!Idle, ArchiveRow, ArchiveStep
<1>3. X!TypeOK
  BY <1>2, ArchiveTypesOK DEF X!Init, ArchiveTypes
<1> QED BY <1>2, <1>3 DEF X!Init, X!ArchiveInv, X!Owned, X!Owns, X!Kept, X!Alone, X!Active, X!At

LEMMA ArchiveSuffices == X!ArchiveInv => X!RetryHeals
  BY DEF X!ArchiveInv, X!TypeOK, X!Alone, X!RetryHeals, X!At

\* Only an acceptance accepts, and it follows an archiving that has returned.
LEMMA ArchiveAccepts ==
    X!ArchiveInv /\ [X!Next]_(X!vars) => [accepted' # accepted /\ ~raced => row # 0 /\ file]_(X!vars)
<1> SUFFICES ASSUME X!ArchiveInv, X!Next, accepted' # accepted, ~raced PROVE row # 0 /\ file
  OBVIOUS
<1>1. PICK r \in Run : X!Begin(r) \/ X!Step(r) \/ X!Accept(r)
  BY DEF X!Next
<1>2. X!Accept(r)
  BY <1>1 DEF X!Begin, X!Step, X!Look, X!Present, X!Missing, X!Unknown, X!Remove, X!Drop, X!Insert,
              X!Upload, X!Undo, X!Reread, X!Recheck, X!Die
<1> QED BY <1>2 DEF X!Accept, X!ArchiveInv

(***************************************************************************)
(* Recommendations.                                                        *)
(***************************************************************************)

\* A set of rows has a newest one.
LEMMA NewestOf ==
    ASSUME NEW m \in Nat, NEW U, U \subseteq 1..m, U # {}
    PROVE  R!Newest(U) \in U /\ \A j \in U : j <= R!Newest(U)
<1>1. PICK T : T = {m - i : i \in U}
  OBVIOUS
<1>2. T \subseteq Nat /\ T # {}
  <2>1. \A i \in U : m - i \in Nat
    OBVIOUS
  <2> QED BY <1>1, <2>1
<1>3. PICK x \in T : \A y \in T : ~(<<y, x>> \in OpToRel(<, Nat))
  BY <1>2, NatLessThanWellFounded, WFMin, Zenon
<1>4. \A y \in T : ~(y < x)
  BY <1>2, <1>3 DEF OpToRel
<1>5. PICK i \in U : x = m - i
  BY <1>1
<1>6. ASSUME NEW j \in U PROVE j <= i
  <2>1. m - j \in T
    BY <1>1
  <2>2. ~(m - j < m - i)
    BY <1>4, <1>5, <2>1
  <2> QED BY <2>2
<1> QED BY <1>6 DEF R!Newest

LEMMA NewestIs ==
    ASSUME NEW U, U \subseteq Int, NEW i \in U, \A j \in U : j <= i
    PROVE  R!Newest(U) = i
<1>1. \E k \in U : \A j \in U : j <= k
  OBVIOUS
<1>2. R!Newest(U) \in U /\ \A j \in U : j <= R!Newest(U)
  BY <1>1 DEF R!Newest
<1>3. PICK n \in Int : n = R!Newest(U) /\ i <= n /\ n <= i
  BY <1>2
<1> QED BY <1>3

\* The rows by their statuses.
Statuses == Decided \cup {"suggested", "expired"}

LEMMA AdviceRows ==
    /\ R!Row = [status : Statuses, need : Nat, pending : BOOLEAN, old : BOOLEAN, past : BOOLEAN]
    /\ "none" \notin Statuses /\ "suggested" \notin Decided /\ "expired" \notin R!Active
    /\ R!Active = Decided \cup {"suggested"} /\ R!Active \subseteq Statuses
  BY AdviceAssumption DEF R!Row, R!Active, Statuses

LEMMA AdviceMade ==
    ASSUME NEW f \in [R!Id -> {R!Unmade} \cup R!Row], NEW i \in R!Id
    PROVE  /\ f[i] # R!Unmade <=> f[i] \in R!Row
           /\ f[i] # R!Unmade <=> f[i].status # "none"
           /\ f[i] # R!Unmade <=> f[i].status \in Statuses
           /\ f[i] # R!Unmade => /\ f[i].need \in Nat /\ f[i].pending \in BOOLEAN
                                 /\ f[i].old \in BOOLEAN /\ f[i].past \in BOOLEAN
<1>1. f[i] = R!Unmade \/ f[i] \in R!Row
  OBVIOUS
<1>2. R!Unmade.status = "none"
  BY DEF R!Unmade
<1> QED BY <1>1, <1>2, AdviceRows

LEMMA AdviceOf ==
    ASSUME rec \in [R!Id -> {R!Unmade} \cup R!Row]
    PROVE  /\ R!Made = {i \in R!Id : rec[i].status # "none"}
           /\ R!Of({"suggested"}) = {i \in R!Id : rec[i].status = "suggested"}
           /\ R!Of(Decided) = {i \in R!Id : rec[i].status \in Decided}
           /\ R!Of(R!Active) = {i \in R!Id : rec[i].status \in R!Active}
<1>1. R!Made = {i \in R!Id : rec[i].status # "none"}
  BY AdviceMade DEF R!Made
<1> QED BY <1>1, AdviceRows DEF R!Of

LEMMA AdviceOfNext ==
    ASSUME rec' \in [R!Id -> {R!Unmade} \cup R!Row]
    PROVE  /\ R!Made' = {i \in R!Id : rec'[i].status # "none"}
           /\ R!Of({"suggested"})' = {i \in R!Id : rec'[i].status = "suggested"}
           /\ R!Of(Decided)' = {i \in R!Id : rec'[i].status \in Decided}
           /\ R!Of(R!Active)' = {i \in R!Id : rec'[i].status \in R!Active}
<1>1. R!Made' = {i \in R!Id : rec'[i].status # "none"}
  BY AdviceMade DEF R!Made
<1> QED BY <1>1, AdviceRows DEF R!Of

\* What the ways of writing rows do to a row and leave of the others.
Kept(f, i) == f[i].need = rec[i].need /\ f[i].pending = rec[i].pending
Clock(f, i) == (f[i].old <=> rec[i].old) /\ (f[i].past <=> rec[i].past)
Rows == [R!Id -> {R!Unmade} \cup R!Row]

LEMMA RowExpires ==
    ASSUME rec \in Rows, NEW U \in SUBSET R!Made, NEW f, f = R!Expired(U)
    PROVE  /\ f \in Rows
           /\ \A i \in R!Id : i \notin U => f[i] = rec[i]
           /\ \A i \in U : f[i].status = "expired" /\ Kept(f, i) /\ Clock(f, i)
<1>1. f = [i \in R!Id |-> IF i \in U THEN [rec[i] EXCEPT !.status = "expired"] ELSE rec[i]]
  BY DEF R!Expired
<1>2. U \subseteq R!Id
  BY DEF R!Made
<1>3. ASSUME NEW i \in U
      PROVE  f[i] \in R!Row /\ f[i].status = "expired" /\ Kept(f, i) /\ Clock(f, i)
  <2>1. rec[i] \in R!Row
    BY <1>2, AdviceMade DEF R!Made, Rows
  <2>2. PICK x : x = [rec[i] EXCEPT !.status = "expired"]
    OBVIOUS
  <2>3. /\ x \in R!Row /\ x.status = "expired" /\ x.need = rec[i].need
        /\ x.pending = rec[i].pending /\ (x.old <=> rec[i].old) /\ (x.past <=> rec[i].past)
    BY <2>1, <2>2, AdviceRows DEF Statuses
  <2>4. f[i] = x
    BY <1>1, <1>2, <2>2
  <2> QED BY <2>3, <2>4 DEF Kept, Clock
<1>4. \A i \in R!Id : i \notin U => f[i] = rec[i]
  BY <1>1
<1> QED BY <1>1, <1>3, <1>4 DEF Rows

LEMMA RowRefreshed ==
    ASSUME rec \in Rows, NEW i \in R!Made, NEW n \in Nat, rec' = [rec EXCEPT ![i].need = n]
    PROVE  /\ rec' \in Rows /\ \A j \in R!Id : j # i => rec'[j] = rec[j]
           /\ rec'[i].status = rec[i].status /\ rec'[i].need = n
           /\ rec'[i].pending = rec[i].pending /\ Clock(rec', i)
<1>1. i \in R!Id /\ rec[i] \in R!Row
  BY AdviceMade DEF R!Made, Rows
<1>2. PICK x : x = [rec[i] EXCEPT !.need = n]
  OBVIOUS
<1>3. /\ x \in R!Row /\ x.status = rec[i].status /\ x.need = n
      /\ x.pending = rec[i].pending /\ (x.old <=> rec[i].old) /\ (x.past <=> rec[i].past)
  BY <1>1, <1>2, AdviceRows DEF Statuses
<1>4. rec' = [rec EXCEPT ![i] = x]
  BY <1>2
<1> QED BY <1>1, <1>3, <1>4 DEF Clock, Rows

LEMMA RowRewritten ==
    ASSUME rec \in Rows, NEW i \in R!Made, NEW n \in Nat, NEW b \in BOOLEAN,
           rec' = [rec EXCEPT ![i].need = n, ![i].pending = ~b]
    PROVE  /\ rec' \in Rows /\ \A j \in R!Id : j # i => rec'[j] = rec[j]
           /\ rec'[i].status = rec[i].status /\ rec'[i].need = n
           /\ (rec'[i].pending <=> ~b) /\ Clock(rec', i)
<1>1. i \in R!Id /\ rec[i] \in R!Row
  BY AdviceMade DEF R!Made, Rows
<1>2. PICK x : x = [rec[i] EXCEPT !.need = n, !.pending = ~b]
  OBVIOUS
<1>3. /\ x \in R!Row /\ x.status = rec[i].status /\ x.need = n
      /\ (x.pending <=> ~b) /\ (x.old <=> rec[i].old) /\ (x.past <=> rec[i].past)
  BY <1>1, <1>2, AdviceRows DEF Statuses
<1>4. rec' = [rec EXCEPT ![i] = x]
  BY <1>2
<1> QED BY <1>1, <1>3, <1>4 DEF Clock, Rows

LEMMA RowInserted ==
    ASSUME rec \in Rows, NEW i \in R!Id, NEW n \in Nat, NEW b \in BOOLEAN,
           rec' = [rec EXCEPT ![i] = [status |-> "suggested", need |-> n, pending |-> b,
                                      old |-> FALSE, past |-> FALSE]]
    PROVE  /\ rec' \in Rows /\ \A j \in R!Id : j # i => rec'[j] = rec[j]
           /\ rec'[i].status = "suggested" /\ rec'[i].need = n
           /\ (rec'[i].pending <=> b) /\ ~rec'[i].old /\ ~rec'[i].past
<1>1. PICK x : x = [status |-> "suggested", need |-> n, pending |-> b, old |-> FALSE, past |-> FALSE]
  OBVIOUS
<1>2. /\ x \in R!Row /\ x.status = "suggested" /\ x.need = n
      /\ (x.pending <=> b) /\ ~x.old /\ ~x.past
  BY <1>1, AdviceRows DEF Statuses
<1>3. rec' = [rec EXCEPT ![i] = x]
  BY <1>1
<1> QED BY <1>2, <1>3 DEF Rows

LEMMA RowDecided ==
    ASSUME rec \in Rows, NEW i \in R!Made, NEW s \in R!Active,
           rec' = [rec EXCEPT ![i].status = s, ![i].past = FALSE]
    PROVE  /\ rec' \in Rows /\ \A j \in R!Id : j # i => rec'[j] = rec[j]
           /\ rec'[i].status = s /\ Kept(rec', i) /\ (rec'[i].old <=> rec[i].old) /\ ~rec'[i].past
<1>1. i \in R!Id /\ rec[i] \in R!Row
  BY AdviceMade DEF R!Made, Rows
<1>2. PICK x : x = [rec[i] EXCEPT !.status = s, !.past = FALSE]
  OBVIOUS
<1>3. /\ x \in R!Row /\ x.status = s /\ x.need = rec[i].need
      /\ x.pending = rec[i].pending /\ (x.old <=> rec[i].old) /\ ~x.past
  BY <1>1, <1>2, AdviceRows DEF Statuses
<1>4. rec' = [rec EXCEPT ![i] = x]
  BY <1>2
<1> QED BY <1>1, <1>3, <1>4 DEF Kept, Rows

LEMMA RowOld ==
    ASSUME rec \in Rows, NEW i \in R!Made, rec' = [rec EXCEPT ![i].old = TRUE]
    PROVE  /\ rec' \in Rows /\ \A j \in R!Id : j # i => rec'[j] = rec[j]
           /\ rec'[i].status = rec[i].status /\ Kept(rec', i)
           /\ rec'[i].old /\ (rec'[i].past <=> rec[i].past)
<1>1. i \in R!Id /\ rec[i] \in R!Row
  BY AdviceMade DEF R!Made, Rows
<1>2. PICK x : x = [rec[i] EXCEPT !.old = TRUE]
  OBVIOUS
<1>3. /\ x \in R!Row /\ x.status = rec[i].status /\ x.need = rec[i].need
      /\ x.pending = rec[i].pending /\ x.old /\ (x.past <=> rec[i].past)
  BY <1>1, <1>2, AdviceRows DEF Statuses
<1>4. rec' = [rec EXCEPT ![i] = x]
  BY <1>2
<1> QED BY <1>1, <1>3, <1>4 DEF Kept, Rows

LEMMA RowPast ==
    ASSUME rec \in Rows, NEW i \in R!Made, rec' = [rec EXCEPT ![i].past = TRUE]
    PROVE  /\ rec' \in Rows /\ \A j \in R!Id : j # i => rec'[j] = rec[j]
           /\ rec'[i].status = rec[i].status /\ Kept(rec', i)
           /\ (rec'[i].old <=> rec[i].old) /\ rec'[i].past
<1>1. i \in R!Id /\ rec[i] \in R!Row
  BY AdviceMade DEF R!Made, Rows
<1>2. PICK x : x = [rec[i] EXCEPT !.past = TRUE]
  OBVIOUS
<1>3. /\ x \in R!Row /\ x.status = rec[i].status /\ x.need = rec[i].need
      /\ x.pending = rec[i].pending /\ (x.old <=> rec[i].old) /\ x.past
  BY <1>1, <1>2, AdviceRows DEF Statuses
<1>4. rec' = [rec EXCEPT ![i] = x]
  BY <1>2
<1> QED BY <1>1, <1>3, <1>4 DEF Kept, Rows

AdviceTypes ==
    /\ need \in Nat /\ gone \in BOOLEAN /\ rec \in Rows /\ calm \subseteq Other
    /\ copilot \in [Other -> R!Job]
    /\ user \in [User -> {R!Idle} \cup [pc : {"write"}, id : R!Id, to : R!Active]]

LEMMA AdviceTypesOK == (R!TypeOK <=> AdviceTypes) /\ (R!TypeOK' <=> AdviceTypes')
  BY DEF R!TypeOK, AdviceTypes, Rows

RowsInv == R!Numbered /\ R!Aging /\ R!OneOpen

\* Rows that keep their age and do not open keep their order.
LEMMA RowsStay ==
    ASSUME rec \in Rows, rec' \in Rows, user' = user, RowsInv,
           \A i \in R!Made : /\ rec'[i].status \in {rec[i].status, "expired"} /\ Clock(rec', i),
           \A i \in R!Id : i \notin R!Made => rec'[i] = rec[i]
    PROVE  /\ RowsInv' /\ R!Made' = R!Made
           /\ \A i \in R!Of(R!Active)' : i \in R!Of(R!Active)
<1>1. R!Made = {i \in R!Id : rec[i].status # "none"} /\ R!Made' = {i \in R!Id : rec'[i].status # "none"}
  BY AdviceOf, AdviceOfNext DEF Rows
<1>2. R!Made' = R!Made
  BY <1>1
<1>3. R!Of({"suggested"})' \subseteq R!Of({"suggested"})
  BY <1>1, <1>2, AdviceOf, AdviceOfNext DEF Rows
<1>4. \A i \in R!Of(R!Active)' : i \in R!Of(R!Active)
  BY <1>1, <1>2, AdviceOf, AdviceOfNext, AdviceRows DEF Rows
<1>5. R!Numbered'
  BY <1>2 DEF RowsInv, R!Numbered
<1>6. R!Aging'
  BY <1>2 DEF RowsInv, R!Aging, Clock
<1>7. R!OneOpen'
  BY <1>3 DEF RowsInv, R!OneOpen
<1> QED BY <1>2, <1>4, <1>5, <1>6, <1>7 DEF RowsInv

LEMMA AdviceJobs ==
    /\ R!Idle \in R!Job /\ [pc |-> "read"] \in R!Job
    /\ \A n \in Nat : /\ [pc |-> "orphans", need |-> n] \in R!Job
                      /\ [pc |-> "load", need |-> n] \in R!Job
                      /\ \A i \in R!Id \cup {0} : \A p \in R!Plans :
                            [pc |-> "write", need |-> n, id |-> i, plan |-> p] \in R!Job
    /\ \A b \in BOOLEAN : [pc |-> "done", ok |-> b] \in R!Job
  BY DEF R!Job, R!Plans

LEMMA AdviceJobFields ==
    \A j \in R!Job :
        /\ j.pc \in {"idle", "read", "orphans", "load", "write", "done"}
        /\ j.pc \in {"orphans", "load", "write"} => j.need \in Nat
        /\ j.pc = "write" => j.id \in R!Id \cup {0} /\ j.plan \in R!Plans
        /\ j.pc = "idle" => j = R!Idle
        /\ j.pc \in {"orphans", "load"} => j = [pc |-> j.pc, need |-> j.need]
  BY DEF R!Job, R!Idle

LEMMA AdviceGoes ==
    ASSUME copilot \in [Other -> R!Job], NEW r \in Other, NEW j \in R!Job,
           copilot' = [copilot EXCEPT ![r] = j]
    PROVE  /\ copilot' \in [Other -> R!Job] /\ copilot'[r] = j
           /\ \A q \in Other : q # r => copilot'[q] = copilot[q]
  OBVIOUS

\* Who is undisturbed while a run takes a step.
LEMMA AdviceCalm ==
    ASSUME R!AdviceInv, NEW r \in Other, ~R!At(r, "idle"), calm' \subseteq calm,
           \A q \in Other : q # r => copilot'[q] = copilot[q]
    PROVE  /\ \A q \in calm' : q # r => copilot'[q].pc = "idle"
           /\ r \in calm' => r \in calm /\ \A q \in Other : q # r => copilot'[q].pc = "idle"
<1>1. calm \subseteq Other
  BY DEF R!AdviceInv, R!TypeOK
<1>2. ASSUME NEW q \in calm, ~R!At(q, "idle") PROVE \A o \in Other \ {q} : R!At(o, "idle")
  BY <1>2 DEF R!AdviceInv, R!ReadStill, R!At
<1>3. \A q \in calm : q # r => R!At(q, "idle")
  BY <1>2
<1>4. r \in calm => \A q \in Other : q # r => R!At(q, "idle")
  BY <1>2
<1> QED BY <1>1, <1>3, <1>4 DEF R!At

CalmInv ==
    /\ \A r \in calm : copilot[r].pc \notin {"idle", "done"} => R!ReadStill(r)
    /\ \A r \in calm : R!At(r, "done") => \A q \in Other \ {r} : R!At(q, "idle")
    /\ R!RunTells

LEMMA AdviceParts == /\ R!AdviceInv <=> AdviceTypes /\ RowsInv /\ (gone => need = 0) /\ CalmInv
                     /\ R!AdviceInv' <=> AdviceTypes' /\ RowsInv' /\ (gone' => need' = 0) /\ CalmInv'
  BY AdviceTypesOK DEF R!AdviceInv, RowsInv, CalmInv

LEMMA NobodyCalm == calm' = {} => CalmInv'
  BY DEF CalmInv, R!RunTells

Tells(r) ==
    IF need = 0 THEN R!Of({"suggested"}) = {} /\ (gone => R!Of(R!Active) = {})
    ELSE \/ \E i \in R!Of(Decided) : ~rec[i].past
         \/ /\ R!Newest(R!Of(R!Active)) \in R!Of({"suggested"})
            /\ R!Level(rec[R!Newest(R!Of(R!Active))].need) = R!Level(need)
            /\ copilot[r].ok => ~rec[R!Newest(R!Of(R!Active))].pending

LEMMA TellsIs == /\ R!RunTells <=> \A r \in Other \cap calm : R!At(r, "done") => Tells(r)
                 /\ R!RunTells' <=> \A r \in Other \cap calm' : R!At(r, "done")' => Tells(r)'
<1>1. \A r : Tells(r) <=>
        LET open == R!Of({"suggested"})
            newest == R!Newest(R!Of(R!Active))
            decided == \E i \in R!Of(Decided) : ~rec[i].past
        IN IF need = 0 THEN open = {} /\ (gone => R!Of(R!Active) = {})
           ELSE \/ decided
                \/ /\ open # {} /\ newest \in open /\ R!Level(rec[newest].need) = R!Level(need)
                   /\ copilot[r].ok => ~rec[newest].pending
  BY DEF Tells
<1>2. \A r : Tells(r)' <=>
        LET open == R!Of({"suggested"})'
            newest == R!Newest(R!Of(R!Active)')
            decided == \E i \in R!Of(Decided)' : ~rec'[i].past
        IN IF need' = 0 THEN open = {} /\ (gone' => R!Of(R!Active)' = {})
           ELSE \/ decided
                \/ /\ open # {} /\ newest \in open /\ R!Level(rec'[newest].need) = R!Level(need')
                   /\ copilot'[r].ok => ~rec'[newest].pending
  BY DEF Tells
<1> QED BY <1>1, <1>2 DEF R!RunTells

\* The parts of the invariant after a step of run r, which is not over with it.
LEMMA AdviceGoesOn ==
    ASSUME R!AdviceInv, NEW r \in Other, ~R!At(r, "idle"), calm' \subseteq calm,
           \A q \in Other : q # r => copilot'[q] = copilot[q],
           r \in calm' => \/ copilot'[r].pc = "idle"
                          \/ copilot'[r].pc = "done" /\ Tells(r)'
                          \/ copilot'[r].pc \in {"read", "orphans", "load", "write"} /\ R!ReadStill(r)'
    PROVE  CalmInv'
<1>1. /\ \A q \in calm' : q # r => copilot'[q].pc = "idle"
      /\ r \in calm' => r \in calm /\ \A q \in Other : q # r => copilot'[q].pc = "idle"
  BY AdviceCalm
<1>2. R!RunTells'
  BY <1>1, TellsIs DEF R!At
<1>3. \A q \in calm' : copilot'[q].pc \notin {"idle", "done"} => R!ReadStill(q)'
  BY <1>1
<1>4. \A q \in calm' : R!At(q, "done")' => \A o \in Other \ {q} : R!At(o, "idle")'
  BY <1>1 DEF R!At
<1> QED BY <1>2, <1>3, <1>4 DEF CalmInv

LEMMA CalmStays ==
    ASSUME CalmInv, UNCHANGED <<need, gone, rec, copilot, calm>>
    PROVE  CalmInv'
<1>1. /\ R!Of({"suggested"})' = R!Of({"suggested"}) /\ R!Of(Decided)' = R!Of(Decided)
      /\ R!Of(R!Active)' = R!Of(R!Active)
  BY DEF R!Of, R!Made
<1>2. R!Seen' = R!Seen
  BY <1>1 DEF R!Seen
<1>3. R!Plan(need, R!Seen)' = R!Plan(need, R!Seen)
  BY <1>2 DEF R!Plan
<1>4. \A r \in calm : R!ReadStill(r) => R!ReadStill(r)'
  BY <1>1, <1>2, <1>3 DEF R!ReadStill, R!At
<1>5. \A r \in calm : Tells(r) => Tells(r)'
  BY <1>1 DEF Tells
<1>6. R!RunTells'
  BY <1>5, TellsIs DEF CalmInv, R!At
<1> QED BY <1>4, <1>6 DEF CalmInv, R!At

LEMMA AdviceReading ==
    ASSUME R!AdviceInv, NEW r \in calm, copilot[r].pc \notin {"idle", "done"}
    PROVE  R!ReadStill(r)
  BY DEF R!AdviceInv

LEMMA AdviceExpireStale ==
    ASSUME R!AdviceInv, NEW r \in Other, R!ExpireStale(r)
    PROVE  R!AdviceInv'
<1> USE AdviceParts
<1>1. PICK U : U = {i \in R!Of({"suggested"}) : rec[i].old}
  OBVIOUS
<1>2. U \subseteq R!Made /\ rec' = R!Expired(U)
  BY <1>1 DEF R!ExpireStale, R!Of
<1>3. /\ rec' \in Rows
      /\ \A i \in R!Id : i \notin U => rec'[i] = rec[i]
      /\ \A i \in U : rec'[i].status = "expired" /\ Kept(rec', i) /\ Clock(rec', i)
  BY <1>2, RowExpires DEF AdviceTypes
<1>4. /\ copilot' \in [Other -> R!Job] /\ copilot'[r] = [pc |-> "read"]
      /\ \A q \in Other : q # r => copilot'[q] = copilot[q]
  BY AdviceGoes, AdviceJobs DEF AdviceTypes, R!ExpireStale
<1>5. need' = need /\ gone' = gone /\ user' = user
      /\ calm' = IF \A q \in Other \ {r} : R!At(q, "idle") THEN {r} ELSE {}
  BY DEF R!ExpireStale
<1>6. AdviceTypes'
  BY <1>3, <1>4, <1>5 DEF AdviceTypes
<1>7. RowsInv' /\ R!Made' = R!Made
  <2>1. \A i \in R!Made : rec'[i].status \in {rec[i].status, "expired"} /\ Clock(rec', i)
    BY <1>3 DEF R!Made, Clock
  <2>2. \A i \in R!Id : i \notin R!Made => rec'[i] = rec[i]
    BY <1>2, <1>3
  <2> QED BY <1>3, <1>5, <2>1, <2>2, RowsStay DEF AdviceTypes
<1>8. CASE calm' = {}
  BY <1>5, <1>6, <1>7, <1>8, NobodyCalm
<1>9. CASE calm' = {r} /\ \A q \in Other \ {r} : R!At(q, "idle")
  <2>1. copilot'[r].pc = "read" /\ \A q \in Other \ {r} : R!At(q, "idle")'
    BY <1>4, <1>9 DEF R!At
  <2>2. \A i \in R!Of({"suggested"})' : ~rec'[i].old
    <3>1. ASSUME NEW i \in R!Id, rec'[i].status = "suggested" PROVE ~rec'[i].old
      <4>1. i \notin U /\ rec'[i] = rec[i]
        BY <1>3, <3>1
      <4>2. i \in R!Of({"suggested"})
        BY <3>1, <4>1, AdviceOf DEF AdviceTypes, Rows
      <4> QED BY <1>1, <4>1, <4>2
    <3> QED BY <1>3, <3>1, AdviceOfNext DEF Rows
  <2>3. R!ReadStill(r)'
    BY <2>1, <2>2 DEF R!ReadStill, R!At
  <2>4. CalmInv'
    BY <1>9, <2>1, <2>3, TellsIs DEF CalmInv, R!At
  <2> QED BY <1>5, <1>6, <1>7, <2>4
<1> QED BY <1>5, <1>8, <1>9

LEMMA AdviceReadProducts ==
    ASSUME R!AdviceInv, NEW r \in Other, R!ReadProducts(r)
    PROVE  R!AdviceInv'
<1> USE AdviceParts
<1>1. R!At(r, "read") /\ UNCHANGED <<need, gone, rec, user, calm>> /\ need \in Nat
  BY DEF R!ReadProducts, AdviceTypes
<1>2. /\ copilot' \in [Other -> R!Job] /\ copilot'[r] = [pc |-> "orphans", need |-> need]
      /\ \A q \in Other : q # r => copilot'[q] = copilot[q]
  BY <1>1, AdviceGoes, AdviceJobs DEF AdviceTypes, R!ReadProducts
<1>3. AdviceTypes' /\ RowsInv'
  BY <1>1, <1>2 DEF AdviceTypes, RowsInv, R!Numbered, R!Aging, R!OneOpen, R!Of, R!Made
<1>4. ASSUME r \in calm PROVE R!ReadStill(r)'
  <2>1. R!ReadStill(r)
    BY <1>1, <1>4, AdviceReading DEF R!At
  <2> QED BY <1>1, <1>2, <2>1 DEF R!ReadStill, R!At, R!Of, R!Made
<1>5. CalmInv'
  BY <1>1, <1>2, <1>4, AdviceGoesOn DEF R!At
<1> QED BY <1>1, <1>3, <1>5

LEMMA AdviceExpireOrphans ==
    ASSUME R!AdviceInv, NEW r \in Other, R!ExpireOrphans(r)
    PROVE  R!AdviceInv'
<1> USE AdviceParts
<1>1. R!At(r, "orphans") /\ UNCHANGED <<need, gone, user, calm>>
  BY DEF R!ExpireOrphans
<1>2. PICK n \in Nat : n = copilot[r].need /\ copilot[r] = [pc |-> "orphans", need |-> n]
  BY <1>1, AdviceJobFields DEF AdviceTypes, R!At
<1>3. /\ copilot' \in [Other -> R!Job] /\ copilot'[r] = [pc |-> "load", need |-> n]
      /\ \A q \in Other : q # r => copilot'[q] = copilot[q]
  <2>1. copilot' = [copilot EXCEPT ![r] = [pc |-> "load", need |-> n]]
    <3>1. [[pc |-> "orphans", need |-> n] EXCEPT !.pc = "load"] = [pc |-> "load", need |-> n]
      OBVIOUS
    <3>2. copilot' = [copilot EXCEPT ![r] = [copilot[r] EXCEPT !.pc = "load"]]
      BY DEF R!ExpireOrphans, R!Go
    <3> QED BY <1>2, <3>1, <3>2
  <2> QED BY <2>1, AdviceGoes, AdviceJobs DEF AdviceTypes
<1>4. PICK U : U = (IF gone THEN R!Of(R!Active) ELSE {})
  OBVIOUS
<1>5. U \subseteq R!Made
  BY <1>4 DEF R!Of
<1>6. rec' = R!Expired(U)
  <2>1. gone => rec' = R!Expired(U)
    BY <1>4 DEF R!ExpireOrphans
  <2>2. ~gone => rec' = rec /\ U = {}
    BY <1>4 DEF R!ExpireOrphans
  <2>3. rec = [i \in R!Id |-> rec[i]]
    BY DEF AdviceTypes, Rows
  <2>4. R!Expired({}) = rec
    BY <2>3 DEF R!Expired
  <2> QED BY <2>1, <2>2, <2>4
<1>7. /\ rec' \in Rows
      /\ \A i \in R!Id : i \notin U => rec'[i] = rec[i]
      /\ \A i \in U : rec'[i].status = "expired" /\ Kept(rec', i) /\ Clock(rec', i)
  BY <1>5, <1>6, RowExpires DEF AdviceTypes
<1>8. RowsInv' /\ \A i \in R!Of(R!Active)' : i \in R!Of(R!Active)
  <2>1. \A i \in R!Made : rec'[i].status \in {rec[i].status, "expired"} /\ Clock(rec', i)
    BY <1>7 DEF R!Made, Clock
  <2>2. \A i \in R!Id : i \notin R!Made => rec'[i] = rec[i]
    BY <1>5, <1>7
  <2> QED BY <1>1, <1>7, <2>1, <2>2, RowsStay DEF AdviceTypes
<1>9. AdviceTypes'
  BY <1>1, <1>3, <1>7 DEF AdviceTypes
<1>10. ASSUME r \in calm PROVE R!ReadStill(r)'
  <2>1. R!ReadStill(r)
    BY <1>1, <1>10, AdviceReading DEF R!At
  <2>2. \A q \in Other \ {r} : R!At(q, "idle")'
    BY <1>3, <2>1 DEF R!ReadStill, R!At
  <2>3. gone' => R!Of(R!Active)' = {}
    <3>1. ASSUME gone, NEW i \in R!Of(R!Active)' PROVE FALSE
      <4>1. i \in U /\ rec'[i].status = "expired"
        BY <1>4, <1>7, <1>8, <3>1
      <4>2. rec'[i].status \in R!Active
        BY <1>7, <3>1, AdviceOfNext DEF Rows
      <4> QED BY <4>1, <4>2, AdviceRows
    <3> QED BY <1>1, <3>1
  <2>4. \A i \in R!Of({"suggested"})' : ~rec'[i].old
    <3>1. ASSUME NEW i \in R!Id, rec'[i].status = "suggested" PROVE ~rec'[i].old
      <4>1. i \notin U /\ rec'[i] = rec[i]
        BY <1>7, <3>1
      <4>2. i \in R!Of({"suggested"})
        BY <3>1, <4>1, AdviceOf DEF AdviceTypes, Rows
      <4> QED BY <2>1, <4>1, <4>2 DEF R!ReadStill
    <3> QED BY <1>7, <3>1, AdviceOfNext DEF Rows
  <2>5. copilot'[r].pc = "load" /\ copilot'[r].need = need'
    BY <1>1, <1>2, <1>3, <2>1 DEF R!ReadStill, R!At
  <2> QED BY <2>2, <2>3, <2>4, <2>5 DEF R!ReadStill, R!At
<1>11. CalmInv'
  BY <1>1, <1>3, <1>10, AdviceGoesOn DEF R!At
<1> QED BY <1>1, <1>8, <1>9, <1>11

\* What the loading of the recommendations chooses.
LEMMA SeenIs ==
    ASSUME rec \in Rows, R!Numbered
    PROVE  \/ /\ R!Seen = 0 /\ \A i \in R!Of(Decided) : rec[i].past
              /\ R!Of(R!Active) # {} => rec[R!Newest(R!Of(R!Active))].status # "suggested"
           \/ /\ R!Seen \in R!Of({"suggested"}) /\ R!Seen = R!Newest(R!Of(R!Active))
              /\ rec[R!Seen].status = "suggested"
           \/ R!Seen \in R!Of(Decided) /\ ~rec[R!Seen].past
<1>1. PICK m \in 0..MaxRecs : R!Made = 1..m
  BY DEF R!Numbered
<1>2. m \in Nat
  BY AdviceAssumption
<1>3. R!Of(R!Active) # {} => R!Newest(R!Of(R!Active)) \in R!Of(R!Active)
  BY <1>1, <1>2, NewestOf DEF R!Of
<1>4. PICK fresh : fresh = {i \in R!Of(Decided) : ~rec[i].past}
  OBVIOUS
<1>5. fresh # {} => R!Newest(fresh) \in fresh
  <2>1. fresh \subseteq 1..m
    BY <1>1, <1>4 DEF R!Of
  <2> QED BY <1>2, <2>1, NewestOf
<1>6. R!Seen = IF R!Of(R!Active) # {} /\ rec[R!Newest(R!Of(R!Active))].status = "suggested"
               THEN R!Newest(R!Of(R!Active))
               ELSE IF fresh # {} THEN R!Newest(fresh) ELSE 0
  BY <1>4 DEF R!Seen
<1>7. CASE R!Of(R!Active) # {} /\ rec[R!Newest(R!Of(R!Active))].status = "suggested"
  BY <1>3, <1>6, <1>7 DEF R!Of
<1>8. CASE ~(R!Of(R!Active) # {} /\ rec[R!Newest(R!Of(R!Active))].status = "suggested")
  BY <1>4, <1>5, <1>6, <1>8
<1> QED BY <1>7, <1>8

LEMMA SeenId == ASSUME rec \in Rows, R!Numbered PROVE R!Seen \in R!Id \cup {0}
  BY SeenIs DEF R!Of, R!Made

LEMMA PlanIs == \A n, i : R!Plan(n, i) \in R!Plans
  BY DEF R!Plan, R!Plans

LEMMA AdviceLoadRecs ==
    ASSUME R!AdviceInv, NEW r \in Other, R!LoadRecs(r)
    PROVE  R!AdviceInv'
<1> USE AdviceParts
<1>1. R!At(r, "load") /\ UNCHANGED <<need, gone, rec, user, calm>>
  BY DEF R!LoadRecs
<1>2. PICK n \in Nat : n = copilot[r].need
  BY <1>1, AdviceJobFields DEF AdviceTypes, R!At
<1>3. PICK i \in R!Id \cup {0} : i = R!Seen
  BY SeenId DEF AdviceTypes, RowsInv
<1>4. PICK p \in R!Plans : p = R!Plan(n, i)
  BY PlanIs
<1>5. /\ copilot' \in [Other -> R!Job]
      /\ copilot'[r] = [pc |-> "write", need |-> n, id |-> i, plan |-> p]
      /\ \A q \in Other : q # r => copilot'[q] = copilot[q]
  <2>1. copilot' = [copilot EXCEPT ![r] = [pc |-> "write", need |-> n, id |-> i, plan |-> p]]
    BY <1>2, <1>3, <1>4 DEF R!LoadRecs
  <2> QED BY <2>1, AdviceGoes, AdviceJobs DEF AdviceTypes
<1>6. AdviceTypes' /\ RowsInv'
  BY <1>1, <1>5 DEF AdviceTypes, RowsInv, R!Numbered, R!Aging, R!OneOpen, R!Of, R!Made
<1>7. R!Seen' = R!Seen
  BY <1>1 DEF R!Seen, R!Of, R!Made
<1>8. R!Plan(need, R!Seen)' = R!Plan(need, R!Seen)
  BY <1>1, <1>7 DEF R!Plan
<1>9. ASSUME r \in calm PROVE R!ReadStill(r)'
  <2>1. R!ReadStill(r)
    BY <1>1, <1>9, AdviceReading DEF R!At
  <2>2. n = need
    BY <1>1, <1>2, <2>1 DEF R!ReadStill, R!At
  <2>3. /\ copilot'[r].pc = "write" /\ copilot'[r].need = need'
        /\ copilot'[r].id = R!Seen' /\ copilot'[r].plan = R!Plan(need, R!Seen)'
    BY <1>1, <1>3, <1>4, <1>5, <1>7, <1>8, <2>2
  <2>4. /\ \A q \in Other \ {r} : R!At(q, "idle")'
        /\ \A j \in R!Of({"suggested"})' : ~rec'[j].old
        /\ gone' => R!Of(R!Active)' = {}
    BY <1>1, <1>5, <2>1 DEF R!ReadStill, R!At, R!Of, R!Made
  <2> QED BY <2>3, <2>4 DEF R!ReadStill, R!At
<1>10. CalmInv'
  BY <1>1, <1>5, <1>9, AdviceGoesOn DEF R!At
<1> QED BY <1>1, <1>6, <1>10

\* What a run writes.
LEMMA AdviceSize == \A U : R!Cardinality(U) = Cardinality(U)
  BY DEF R!Cardinality, Cardinality

LEMMA WriteIs ==
    ASSUME AdviceTypes, R!Numbered, NEW r \in Other, NEW ok \in BOOLEAN, R!At(r, "write"),
           copilot[r].plan = "insert" => R!Made # R!Id \/ R!Of({"suggested"}) # {},
           rec' = R!Written(r, ok)
    PROVE  \/ copilot[r].plan = "expire" /\ rec' = R!Expired(R!Of({"suggested"}))
           \/ /\ copilot[r].plan = "refresh" /\ copilot[r].id \in R!Of({"suggested"})
              /\ rec' = [rec EXCEPT ![copilot[r].id].need = copilot[r].need]
           \/ /\ copilot[r].plan = "rewrite" /\ copilot[r].id \in R!Of({"suggested"})
              /\ rec' = [rec EXCEPT ![copilot[r].id].need = copilot[r].need,
                                    ![copilot[r].id].pending = ~ok]
           \/ /\ copilot[r].plan = "insert" /\ R!Of({"suggested"}) = {}
              /\ \E m \in Nat : /\ R!Made = 1..m /\ m + 1 \in R!Id
                                /\ rec' = [rec EXCEPT ![m + 1] =
                                      [status |-> "suggested", need |-> copilot[r].need,
                                       pending |-> ~ok, old |-> FALSE, past |-> FALSE]]
           \/ /\ rec' = rec
              /\ \/ copilot[r].plan = "none"
                 \/ copilot[r].plan = "insert" /\ R!Of({"suggested"}) # {}
                 \/ /\ copilot[r].plan \in {"refresh", "rewrite"}
                    /\ copilot[r].id \notin R!Of({"suggested"})
<1>1. PICK n \in Nat, i \in R!Id \cup {0}, p \in R!Plans :
        n = copilot[r].need /\ i = copilot[r].id /\ p = copilot[r].plan
  BY AdviceJobFields DEF AdviceTypes, R!At
<1>2. i \in R!Id => (rec[i].status = "suggested" <=> i \in R!Of({"suggested"}))
  BY AdviceOf DEF AdviceTypes, Rows
<1>3. i \notin R!Id => /\ i \notin R!Of({"suggested"})
                       /\ [rec EXCEPT ![i].need = n] = rec
                       /\ [rec EXCEPT ![i].need = n, ![i].pending = ~ok] = rec
  BY DEF AdviceTypes, Rows, R!Of, R!Made
<1>4. CASE p = "expire"
  BY <1>1, <1>4 DEF R!Written
<1>5. CASE p = "refresh"
  <2>1. rec' = IF rec[i].status = "suggested" THEN [rec EXCEPT ![i].need = n] ELSE rec
    BY <1>1, <1>5 DEF R!Written, R!Writable
  <2> QED BY <1>1, <1>2, <1>3, <1>5, <2>1
<1>6. CASE p = "rewrite"
  <2>1. rec' = IF rec[i].status = "suggested"
               THEN [rec EXCEPT ![i].need = n, ![i].pending = ~ok] ELSE rec
    BY <1>1, <1>6 DEF R!Written, R!Writable
  <2> QED BY <1>1, <1>2, <1>3, <1>6, <2>1
<1>7. CASE p = "insert"
  <2>1. rec' = IF R!Of({"suggested"}) # {} THEN rec
               ELSE [rec EXCEPT ![R!Cardinality(R!Made) + 1] =
                      [status |-> "suggested", need |-> n, pending |-> ~ok,
                       old |-> FALSE, past |-> FALSE]]
    BY <1>1, <1>7 DEF R!Written
  <2>2. PICK m \in 0..MaxRecs : R!Made = 1..m
    BY DEF R!Numbered
  <2>3. m \in Nat /\ R!Cardinality(R!Made) = m
    <3>1. m \in Nat
      BY <2>2, AdviceAssumption
    <3>2. Cardinality(1..m) = m
      BY <3>1, FS_Interval
    <3> QED BY <2>2, <3>1, <3>2, AdviceSize
  <2>4. R!Made # R!Id => m + 1 \in R!Id
    BY <2>2, <2>3, AdviceAssumption DEF R!Id
  <2> QED BY <1>1, <1>7, <2>1, <2>2, <2>3, <2>4
<1>8. CASE p = "none"
  BY <1>1, <1>8 DEF R!Written
<1> QED BY <1>1, <1>4, <1>5, <1>6, <1>7, <1>8 DEF R!Plans

\* The rows after a run has written, and what it tells if nobody disturbed it.
LEMMA AdviceWriteRows ==
    ASSUME R!AdviceInv, NEW r \in Other, NEW ok \in BOOLEAN, R!At(r, "write"),
           copilot[r].plan = "insert" => R!Made # R!Id \/ R!Of({"suggested"}) # {},
           rec' = R!Written(r, ok), UNCHANGED <<need, gone, user>>, copilot'[r].ok = ok
    PROVE  rec' \in Rows /\ RowsInv' /\ (r \in calm => Tells(r)')
<1> USE AdviceParts
<1> DEFINE id == copilot[r].id
<1>1. copilot[r].need \in Nat
  BY AdviceJobFields DEF AdviceTypes, R!At
<1>2. /\ R!Of({"suggested"}) = {i \in R!Id : rec[i].status = "suggested"}
      /\ R!Of(Decided) = {i \in R!Id : rec[i].status \in Decided}
      /\ R!Of(R!Active) = {i \in R!Id : rec[i].status \in R!Active}
      /\ R!Made = {i \in R!Id : rec[i].status # "none"}
  BY AdviceOf DEF AdviceTypes, Rows
<1>3. r \in calm => /\ copilot[r].need = need /\ id = R!Seen /\ copilot[r].plan = R!Plan(need, R!Seen)
                    /\ (gone => R!Of(R!Active) = {}) /\ (gone => need = 0)
                    /\ \A i \in R!Of({"suggested"}) : ~rec[i].old
  BY AdviceReading DEF R!ReadStill, R!At
<1>4. CASE copilot[r].plan = "expire" /\ rec' = R!Expired(R!Of({"suggested"}))
  <2>1. PICK U : U = R!Of({"suggested"}) /\ U \subseteq R!Made
    BY DEF R!Of
  <2>2. /\ rec' \in Rows
        /\ \A i \in R!Id : i \notin U => rec'[i] = rec[i]
        /\ \A i \in U : rec'[i].status = "expired" /\ Kept(rec', i) /\ Clock(rec', i)
    BY <1>4, <2>1, RowExpires DEF AdviceTypes
  <2>3. RowsInv' /\ \A i \in R!Of(R!Active)' : i \in R!Of(R!Active)
    <3>1. \A i \in R!Made : rec'[i].status \in {rec[i].status, "expired"} /\ Clock(rec', i)
      BY <2>2 DEF R!Made, Clock
    <3>2. \A i \in R!Id : i \notin R!Made => rec'[i] = rec[i]
      BY <2>1, <2>2
    <3> QED BY <2>2, <3>1, <3>2, RowsStay DEF AdviceTypes
  <2>4. R!Of({"suggested"})' = {}
    BY <1>2, <2>1, <2>2, AdviceOfNext DEF Rows
  <2>5. r \in calm => need = 0
    BY <1>3, <1>4 DEF R!Plan
  <2> QED BY <1>3, <2>2, <2>3, <2>4, <2>5 DEF Tells
<1>5. CASE /\ copilot[r].plan = "refresh" /\ id \in R!Of({"suggested"})
           /\ rec' = [rec EXCEPT ![id].need = copilot[r].need]
  <2>1. id \in R!Made /\ id \in R!Id /\ rec[id].status = "suggested"
    BY <1>2, <1>5, AdviceRows
  <2>2. /\ rec' \in Rows /\ \A j \in R!Id : j # id => rec'[j] = rec[j]
        /\ rec'[id].status = rec[id].status /\ rec'[id].need = copilot[r].need
        /\ rec'[id].pending = rec[id].pending /\ Clock(rec', id)
    BY <1>1, <1>5, <2>1, RowRefreshed DEF AdviceTypes
  <2>3. RowsInv'
    <3>1. \A i \in R!Made : rec'[i].status \in {rec[i].status, "expired"} /\ Clock(rec', i)
      BY <2>2 DEF R!Made, Clock
    <3>2. \A i \in R!Id : i \notin R!Made => rec'[i] = rec[i]
      BY <2>1, <2>2
    <3> QED BY <2>2, <3>1, <3>2, RowsStay DEF AdviceTypes
  <2>4. R!Of({"suggested"})' = R!Of({"suggested"}) /\ R!Of(R!Active)' = R!Of(R!Active)
    <3>1. \A i \in R!Id : rec'[i].status = rec[i].status
      BY <2>2
    <3> QED BY <1>2, <2>2, <3>1, AdviceOfNext DEF Rows
  <2>5. ASSUME r \in calm
        PROVE  /\ need # 0 /\ id = R!Newest(R!Of(R!Active))
               /\ ~rec[id].pending /\ R!Level(rec[id].need) = R!Level(need)
    <3>1. id = R!Seen /\ R!Plan(need, id) = "refresh"
      BY <1>3, <1>5, <2>5
    <3>2. id # 0 /\ rec[id].status \notin Decided
      BY <2>1, AdviceRows DEF R!Id
    <3>3. id = R!Newest(R!Of(R!Active))
      BY <1>2, <3>1, <3>2, SeenIs DEF AdviceTypes, RowsInv
    <3> QED BY <3>1, <3>2, <3>3 DEF R!Plan
  <2> QED BY <1>3, <1>5, <2>2, <2>3, <2>4, <2>5 DEF Tells
<1>6. CASE /\ copilot[r].plan = "rewrite" /\ id \in R!Of({"suggested"})
           /\ rec' = [rec EXCEPT ![id].need = copilot[r].need, ![id].pending = ~ok]
  <2>1. id \in R!Made /\ id \in R!Id /\ rec[id].status = "suggested"
    BY <1>2, <1>6, AdviceRows
  <2>2. /\ rec' \in Rows /\ \A j \in R!Id : j # id => rec'[j] = rec[j]
        /\ rec'[id].status = rec[id].status /\ rec'[id].need = copilot[r].need
        /\ (rec'[id].pending <=> ~ok) /\ Clock(rec', id)
    <3>1. rec \in Rows /\ rec' = [rec EXCEPT ![id].need = copilot[r].need, ![id].pending = ~ok]
      BY <1>6 DEF AdviceTypes
    <3>2. PICK i \in R!Made, n \in Nat : i = id /\ n = copilot[r].need
      BY <1>1, <2>1
    <3>3. rec \in Rows /\ rec' = [rec EXCEPT ![i].need = n, ![i].pending = ~ok]
      BY <3>1, <3>2
    <3>4. /\ rec' \in Rows /\ \A j \in R!Id : j # i => rec'[j] = rec[j]
          /\ rec'[i].status = rec[i].status /\ rec'[i].need = n
          /\ (rec'[i].pending <=> ~ok) /\ Clock(rec', i)
      BY <3>3, RowRewritten
    <3> QED BY <3>2, <3>4
  <2>3. RowsInv'
    <3>1. \A i \in R!Made : rec'[i].status \in {rec[i].status, "expired"} /\ Clock(rec', i)
      BY <2>2 DEF R!Made, Clock
    <3>2. \A i \in R!Id : i \notin R!Made => rec'[i] = rec[i]
      BY <2>1, <2>2
    <3> QED BY <2>2, <3>1, <3>2, RowsStay DEF AdviceTypes
  <2>4. R!Of({"suggested"})' = R!Of({"suggested"}) /\ R!Of(R!Active)' = R!Of(R!Active)
    <3>1. \A i \in R!Id : rec'[i].status = rec[i].status
      BY <2>2
    <3> QED BY <1>2, <2>2, <3>1, AdviceOfNext DEF Rows
  <2>5. ASSUME r \in calm PROVE need # 0 /\ id = R!Newest(R!Of(R!Active))
    <3>1. id = R!Seen /\ R!Plan(need, id) = "rewrite"
      BY <1>3, <1>6, <2>5
    <3>2. id # 0 /\ rec[id].status \notin Decided
      BY <2>1, AdviceRows DEF R!Id
    <3>3. id = R!Newest(R!Of(R!Active))
      BY <1>2, <3>1, <3>2, SeenIs DEF AdviceTypes, RowsInv
    <3> QED BY <3>1, <3>2, <3>3 DEF R!Plan
  <2> QED BY <1>3, <1>6, <2>2, <2>3, <2>4, <2>5 DEF Tells
<1>7. CASE /\ copilot[r].plan = "insert" /\ R!Of({"suggested"}) = {}
           /\ \E m \in Nat : /\ R!Made = 1..m /\ m + 1 \in R!Id
                             /\ rec' = [rec EXCEPT ![m + 1] =
                                   [status |-> "suggested", need |-> copilot[r].need,
                                    pending |-> ~ok, old |-> FALSE, past |-> FALSE]]
  <2>1. PICK m \in Nat : /\ R!Made = 1..m /\ m + 1 \in R!Id
                         /\ rec' = [rec EXCEPT ![m + 1] =
                               [status |-> "suggested", need |-> copilot[r].need,
                                pending |-> ~ok, old |-> FALSE, past |-> FALSE]]
    BY <1>7
  <2>2. PICK k \in R!Id : k = m + 1
    BY <2>1
  <2>3. /\ rec' \in Rows /\ \A j \in R!Id : j # k => rec'[j] = rec[j]
        /\ rec'[k].status = "suggested" /\ rec'[k].need = copilot[r].need
        /\ (rec'[k].pending <=> ~ok) /\ ~rec'[k].old /\ ~rec'[k].past
    <3>1. PICK b \in BOOLEAN : b = ~ok
      OBVIOUS
    <3>2. PICK n \in Nat : n = copilot[r].need
      BY <1>1
    <3>3. rec \in Rows /\ rec' = [rec EXCEPT ![k] = [status |-> "suggested", need |-> n,
                                        pending |-> b, old |-> FALSE, past |-> FALSE]]
      BY <2>1, <2>2, <3>1, <3>2 DEF AdviceTypes
    <3>4. /\ rec' \in Rows /\ \A j \in R!Id : j # k => rec'[j] = rec[j]
          /\ rec'[k].status = "suggested" /\ rec'[k].need = n
          /\ (rec'[k].pending <=> b) /\ ~rec'[k].old /\ ~rec'[k].past
      BY <3>3, RowInserted
    <3> QED BY <3>1, <3>2, <3>4
  <2>4. /\ R!Made' = R!Made \cup {k} /\ R!Of({"suggested"})' = {k}
        /\ R!Of(R!Active)' = R!Of(R!Active) \cup {k}
    <3>1. /\ R!Made' = {i \in R!Id : rec'[i].status # "none"}
          /\ R!Of({"suggested"})' = {i \in R!Id : rec'[i].status = "suggested"}
          /\ R!Of(R!Active)' = {i \in R!Id : rec'[i].status \in R!Active}
      BY <2>3, AdviceOfNext DEF Rows
    <3>2. R!Made' = R!Made \cup {k}
      BY <1>2, <2>3, <3>1
    <3>3. R!Of({"suggested"})' = {k}
      BY <1>2, <1>7, <2>3, <3>1
    <3>4. R!Of(R!Active)' = R!Of(R!Active) \cup {k}
      BY <1>2, <2>3, <3>1, AdviceRows
    <3> QED BY <3>2, <3>3, <3>4
  <2>5. R!Numbered'
    <3>1. R!Made' = 1..k /\ k \in 0..MaxRecs
      BY <2>1, <2>2, <2>4 DEF R!Id
    <3>2. \A u \in User : user'[u] # R!Idle => user'[u].id \in R!Made'
      BY <2>4 DEF RowsInv, R!Numbered
    <3> QED BY <3>1, <3>2 DEF R!Numbered
  <2>6. R!Aging'
    <3>1. \A i \in R!Made : i # k /\ i < k /\ rec'[i] = rec[i] /\ i \in R!Id
      BY <1>2, <2>1, <2>2, <2>3
    <3>2. \A i \in R!Made : /\ rec[i].past => rec[i].old
                            /\ rec[i].old => \A j \in R!Made : j < i => rec[j].old
      BY DEF RowsInv, R!Aging
    <3>3. ASSUME NEW i \in R!Made'
          PROVE  /\ rec'[i].past => rec'[i].old
                 /\ rec'[i].old => \A j \in R!Made' : j < i => rec'[j].old
      <4>1. CASE i = k
        BY <2>3, <4>1
      <4>2. CASE i \in R!Made
        <5>1. i < k /\ rec'[i] = rec[i] /\ i \in Nat
          BY <2>1, <3>1, <4>2
        <5>2. ASSUME NEW j \in R!Made', j < i PROVE j \in R!Made /\ rec'[j] = rec[j]
          BY <2>1, <2>2, <2>4, <3>1, <5>1, <5>2
        <5>3. rec[i].past => rec[i].old
          BY <3>2, <4>2
        <5>4. rec[i].old => \A j \in R!Made : j < i => rec[j].old
          BY <3>2, <4>2
        <5>5. rec'[i].past => rec'[i].old
          BY <5>1, <5>3
        <5>6. rec'[i].old => \A j \in R!Made' : j < i => rec'[j].old
          BY <5>1, <5>2, <5>4
        <5> QED BY <5>5, <5>6
      <4> QED BY <2>4, <4>1, <4>2
    <3> QED BY <3>3 DEF R!Aging
  <2>7. R!OneOpen'
    BY <2>4 DEF R!OneOpen
  <2>8. R!Newest(R!Of(R!Active)') = k
    <3>1. \A j \in R!Of(R!Active)' : j <= k /\ j \in Int
      BY <1>2, <2>1, <2>2, <2>4, AdviceRows
    <3> QED BY <2>4, <3>1, NewestIs
  <2>9. r \in calm => need # 0
    BY <1>3, <1>7 DEF R!Plan
  <2> QED BY <1>3, <2>3, <2>4, <2>5, <2>6, <2>7, <2>8, <2>9 DEF Tells, RowsInv
<1>8. CASE /\ rec' = rec
           /\ \/ copilot[r].plan = "none"
              \/ copilot[r].plan = "insert" /\ R!Of({"suggested"}) # {}
              \/ copilot[r].plan \in {"refresh", "rewrite"} /\ id \notin R!Of({"suggested"})
  <2>1. rec' \in Rows /\ RowsInv'
    BY <1>8 DEF AdviceTypes, RowsInv, R!Numbered, R!Aging, R!OneOpen, R!Of, R!Made
  <2>2. ASSUME r \in calm PROVE need # 0 /\ \E i \in R!Of(Decided) : ~rec[i].past
    <3>1. need # 0
      BY <1>3, <1>8, <2>2 DEF R!Plan
    <3>2. CASE R!Seen \in R!Of(Decided) /\ ~rec[R!Seen].past
      BY <3>1, <3>2
    <3>3. CASE R!Seen \in R!Of({"suggested"}) /\ rec[R!Seen].status = "suggested"
      <4>1. R!Seen # 0
        BY <3>3 DEF R!Of, R!Made, R!Id
      <4> QED BY <1>3, <1>8, <2>2, <3>1, <3>3, <4>1, AdviceRows DEF R!Plan
    <3>4. CASE /\ R!Seen = 0 /\ \A i \in R!Of(Decided) : rec[i].past
               /\ R!Of(R!Active) # {} => rec[R!Newest(R!Of(R!Active))].status # "suggested"
      <4>1. PICK x \in R!Of({"suggested"}) : TRUE
        BY <1>3, <1>8, <2>2, <3>1, <3>4 DEF R!Plan
      <4>2. PICK m \in Nat : R!Made = 1..m
        BY AdviceAssumption DEF RowsInv, R!Numbered
      <4>3. PICK n : n = R!Newest(R!Of(R!Active))
        OBVIOUS
      <4>4. x \in R!Of(R!Active) /\ n \in R!Of(R!Active) /\ x <= n
        <5>1. x \in R!Of(R!Active) /\ R!Of(R!Active) \subseteq 1..m
          BY <1>2, <4>2, AdviceRows
        <5> QED BY <4>2, <4>3, <5>1, NewestOf
      <4>5. n \in R!Of(Decided) /\ n # x
        BY <1>2, <3>4, <4>1, <4>3, <4>4, AdviceRows
      <4>6. x \in R!Made /\ n \in R!Made /\ x < n
        BY <1>2, <4>1, <4>2, <4>4, <4>5, AdviceRows
      <4>7. rec[n].past
        BY <3>4, <4>5
      <4>8. rec[x].old
        <5>1. \A i \in R!Made : /\ rec[i].past => rec[i].old
                                /\ rec[i].old => \A j \in R!Made : j < i => rec[j].old
          BY DEF RowsInv, R!Aging
        <5>2. rec[n].old
          BY <4>6, <4>7, <5>1
        <5>3. \A j \in R!Made : j < n => rec[j].old
          BY <4>6, <5>1, <5>2
        <5> QED BY <4>6, <5>3
      <4> QED BY <1>3, <2>2, <4>1, <4>8
    <3> QED BY <3>2, <3>3, <3>4, SeenIs DEF AdviceTypes, RowsInv
  <2> QED BY <1>8, <2>1, <2>2 DEF Tells, R!Of, R!Made
<1> QED BY <1>4, <1>5, <1>6, <1>7, <1>8, WriteIs DEF RowsInv

LEMMA AdviceWrite ==
    ASSUME R!AdviceInv, NEW r \in Other, R!Write(r)
    PROVE  R!AdviceInv'
<1> USE AdviceParts
<1>1. PICK ok \in BOOLEAN : rec' = R!Written(r, ok) /\ copilot' = [copilot EXCEPT ![r] = [pc |-> "done", ok |-> ok]]
  BY DEF R!Write
<1>2. /\ R!At(r, "write") /\ UNCHANGED <<need, gone, user, calm>>
      /\ copilot[r].plan = "insert" => R!Made # R!Id \/ R!Of({"suggested"}) # {}
  BY DEF R!Write
<1>3. /\ copilot' \in [Other -> R!Job] /\ copilot'[r] = [pc |-> "done", ok |-> ok]
      /\ \A q \in Other : q # r => copilot'[q] = copilot[q]
  BY <1>1, AdviceGoes, AdviceJobs DEF AdviceTypes
<1>4. rec' \in Rows /\ RowsInv' /\ (r \in calm => Tells(r)')
  BY <1>1, <1>2, <1>3, AdviceWriteRows
<1>5. AdviceTypes'
  BY <1>2, <1>3, <1>4 DEF AdviceTypes
<1>6. CalmInv'
  BY <1>2, <1>3, <1>4, AdviceGoesOn DEF R!At
<1> QED BY <1>2, <1>4, <1>5, <1>6

\* A failed call, an answer: the rows stay as they are.
LEMMA AdviceRun ==
    ASSUME R!AdviceInv, NEW r \in Other, NEW j \in R!Job, ~R!At(r, "idle"),
           copilot' = [copilot EXCEPT ![r] = j], calm' \subseteq calm,
           UNCHANGED <<need, gone, rec, user>>, r \in calm' => j = R!Idle
    PROVE  R!AdviceInv'
<1> USE AdviceParts
<1>1. /\ copilot' \in [Other -> R!Job] /\ copilot'[r] = j
      /\ \A q \in Other : q # r => copilot'[q] = copilot[q]
  BY AdviceGoes DEF AdviceTypes
<1>2. AdviceTypes' /\ RowsInv'
  BY <1>1 DEF AdviceTypes, RowsInv, R!Numbered, R!Aging, R!OneOpen, R!Of, R!Made
<1>3. r \in calm' => copilot'[r].pc = "idle"
  BY <1>1 DEF R!Idle
<1>4. CalmInv'
  BY <1>1, <1>3, AdviceGoesOn
<1> QED BY <1>2, <1>4

LEMMA AdviceFail ==
    ASSUME R!AdviceInv, NEW r \in Other, R!Fail(r)
    PROVE  R!AdviceInv'
<1> USE AdviceParts
<1>1. UNCHANGED <<need, gone, rec, user>> /\ calm' = calm \ {r} /\ ~R!At(r, "idle")
  BY DEF R!Fail, R!At
<1>2. CASE R!At(r, "orphans") /\ R!Go(r, "load")
  <2>1. PICK n \in Nat : copilot[r] = [pc |-> "orphans", need |-> n]
    BY <1>2, AdviceJobFields DEF AdviceTypes, R!At
  <2>2. [[pc |-> "orphans", need |-> n] EXCEPT !.pc = "load"] = [pc |-> "load", need |-> n]
    OBVIOUS
  <2>3. copilot' = [copilot EXCEPT ![r] = [copilot[r] EXCEPT !.pc = "load"]]
    BY <1>2 DEF R!Go
  <2>4. copilot' = [copilot EXCEPT ![r] = [pc |-> "load", need |-> n]]
    BY <2>1, <2>2, <2>3
  <2>5. [pc |-> "load", need |-> n] \in R!Job
    BY AdviceJobs
  <2> QED BY <1>1, <2>4, <2>5, AdviceRun
<1>3. CASE copilot' = [copilot EXCEPT ![r] = R!Idle]
  BY <1>1, <1>3, AdviceRun, AdviceJobs
<1> QED BY <1>2, <1>3 DEF R!Fail

LEMMA AdviceAnswer ==
    ASSUME R!AdviceInv, NEW r \in Other, R!Answer(r)
    PROVE  R!AdviceInv'
<1>1. /\ copilot' = [copilot EXCEPT ![r] = R!Idle] /\ UNCHANGED <<need, gone, rec, user, calm>>
      /\ ~R!At(r, "idle")
  BY DEF R!Answer, R!At
<1> QED BY <1>1, AdviceRun, AdviceJobs

\* What the users do.
LEMMA AdviceAsk ==
    ASSUME R!AdviceInv, NEW u \in User, R!Ask(u)
    PROVE  R!AdviceInv'
<1> USE AdviceParts
<1>1. UNCHANGED <<need, gone, rec, copilot, calm>>
  BY DEF R!Ask
<1>2. PICK i \in R!Made : \E s \in R!Next0(rec[i].status) :
          user' = [user EXCEPT ![u] = [pc |-> "write", id |-> i, to |-> s]]
  BY DEF R!Ask
<1>3. PICK s \in R!Next0(rec[i].status) : user' = [user EXCEPT ![u] = [pc |-> "write", id |-> i, to |-> s]]
  BY <1>2
<1>4. i \in R!Id /\ s \in R!Active
  BY <1>3, AdviceRows DEF R!Made, R!Next0
<1>5. [pc |-> "write", id |-> i, to |-> s] \in [pc : {"write"}, id : R!Id, to : R!Active]
  BY <1>4
<1>6. AdviceTypes'
  BY <1>1, <1>3, <1>5 DEF AdviceTypes
<1>7. R!Numbered'
  <2>1. ASSUME NEW v \in User, user'[v] # R!Idle PROVE user'[v].id \in R!Made
    <3>1. CASE v = u
      BY <1>3, <3>1 DEF AdviceTypes
    <3>2. CASE v # u
      BY <1>3, <2>1, <3>2 DEF AdviceTypes, RowsInv, R!Numbered
    <3> QED BY <3>1, <3>2
  <2> QED BY <1>1, <2>1 DEF RowsInv, R!Numbered, R!Made
<1>8. RowsInv' /\ CalmInv'
  BY <1>1, <1>7, CalmStays DEF RowsInv, R!Aging, R!OneOpen, R!Of, R!Made
<1> QED BY <1>1, <1>6, <1>8

LEMMA AdviceDecide ==
    ASSUME R!AdviceInv, NEW u \in User, R!Decide(u)
    PROVE  R!AdviceInv'
<1> USE AdviceParts
<1>1. PICK i, s : i = user[u].id /\ s = user[u].to
  OBVIOUS
<1>2. /\ UNCHANGED <<need, gone, copilot>> /\ calm' = {} /\ user[u] # R!Idle
      /\ user' = [user EXCEPT ![u] = R!Idle]
  BY DEF R!Decide
<1>3. i \in R!Made /\ s \in R!Active
  BY <1>1, <1>2 DEF AdviceTypes, RowsInv, R!Numbered
<1>4. \A v \in User : user'[v] # R!Idle => user'[v] = user[v] /\ user[v] # R!Idle
  BY <1>2 DEF AdviceTypes
<1>5. user' \in [User -> {R!Idle} \cup [pc : {"write"}, id : R!Id, to : R!Active]]
  BY <1>2 DEF AdviceTypes
<1>6. CASE rec' = rec
  <2>1. AdviceTypes' /\ RowsInv'
    BY <1>2, <1>4, <1>5, <1>6 DEF AdviceTypes, RowsInv, R!Numbered, R!Aging, R!OneOpen, R!Of, R!Made
  <2> QED BY <1>2, <2>1, NobodyCalm
<1>7. CASE /\ rec' = [rec EXCEPT ![i].status = s, ![i].past = FALSE]
           /\ s = "suggested" => R!Of({"suggested"}) \subseteq {i}
  <2>1. /\ rec' \in Rows /\ \A j \in R!Id : j # i => rec'[j] = rec[j]
        /\ rec'[i].status = s /\ (rec'[i].old <=> rec[i].old) /\ ~rec'[i].past
    BY <1>3, <1>7, RowDecided DEF AdviceTypes
  <2>2. AdviceTypes'
    BY <1>2, <1>5, <2>1 DEF AdviceTypes
  <2>3. /\ R!Made = {j \in R!Id : rec[j].status # "none"}
        /\ R!Made' = {j \in R!Id : rec'[j].status # "none"}
    BY <2>1, AdviceOf, AdviceOfNext DEF AdviceTypes, Rows
  <2>4. s # "none"
    BY <1>3, AdviceRows
  <2>5. R!Made' = R!Made
    BY <1>3, <2>1, <2>3, <2>4
  <2>6. R!Numbered'
    BY <1>4, <2>5 DEF RowsInv, R!Numbered
  <2>7. R!Aging'
    BY <1>3, <2>1, <2>3, <2>5 DEF RowsInv, R!Aging
  <2>8. /\ R!Of({"suggested"}) = {j \in R!Id : rec[j].status = "suggested"}
        /\ R!Of({"suggested"})' = {j \in R!Id : rec'[j].status = "suggested"}
    BY <2>1, AdviceOf, AdviceOfNext DEF AdviceTypes, Rows
  <2>9. R!OneOpen'
    <3>1. CASE s = "suggested"
      <4>1. ASSUME NEW j \in R!Of({"suggested"})' PROVE j = i
        <5>1. j \in R!Id /\ rec'[j].status = "suggested"
          BY <2>8
        <5> QED BY <1>7, <2>1, <2>8, <3>1, <5>1
      <4> QED BY <4>1 DEF R!OneOpen
    <3>2. CASE s # "suggested"
      BY <2>1, <2>8, <3>2 DEF RowsInv, R!OneOpen
    <3> QED BY <3>1, <3>2
  <2>10. RowsInv'
    BY <2>6, <2>7, <2>9 DEF RowsInv
  <2> QED BY <1>2, <2>2, <2>10, NobodyCalm
<1>8. \/ rec' = rec
      \/ /\ rec' = [rec EXCEPT ![i].status = s, ![i].past = FALSE]
         /\ s = "suggested" => R!Of({"suggested"}) \subseteq {i}
  BY <1>1 DEF R!Decide
<1> QED BY <1>6, <1>7, <1>8

\* What the stock and the clock do.
LEMMA AdviceChange ==
    ASSUME R!AdviceInv, R!Change
    PROVE  R!AdviceInv'
<1> USE AdviceParts
<1>1. calm' = {} /\ UNCHANGED <<copilot, user>> /\ (gone' => need' = 0)
  BY DEF R!Change
<1>2. need' \in Nat /\ gone' \in BOOLEAN
  <2>1. CASE need' \in (0..MaxNeed) \ {need} /\ UNCHANGED gone
    BY <2>1, AdviceAssumption DEF AdviceTypes
  <2>2. CASE need' = 0 /\ gone' = TRUE
    BY <2>2
  <2>3. CASE need' = need /\ gone' = FALSE
    BY <2>3 DEF AdviceTypes
  <2> QED BY <2>1, <2>2, <2>3 DEF R!Change
<1>3. CASE rec' = rec
  <2>1. AdviceTypes' /\ RowsInv'
    BY <1>1, <1>2, <1>3 DEF AdviceTypes, RowsInv, R!Numbered, R!Aging, R!OneOpen, R!Of, R!Made
  <2> QED BY <1>1, <2>1, NobodyCalm
<1>4. CASE rec' = R!Expired(R!Of(R!Active))
  <2>1. R!Of(R!Active) \subseteq R!Made
    BY DEF R!Of
  <2>2. /\ rec' \in Rows
        /\ \A i \in R!Id : i \notin R!Of(R!Active) => rec'[i] = rec[i]
        /\ \A i \in R!Of(R!Active) : rec'[i].status = "expired" /\ Kept(rec', i) /\ Clock(rec', i)
    BY <1>4, <2>1, RowExpires DEF AdviceTypes
  <2>3. \A i \in R!Made : rec'[i].status \in {rec[i].status, "expired"} /\ Clock(rec', i)
    BY <2>2 DEF R!Made, Clock
  <2>4. \A i \in R!Id : i \notin R!Made => rec'[i] = rec[i]
    BY <2>1, <2>2
  <2>5. AdviceTypes' /\ RowsInv'
    BY <1>1, <1>2, <2>2, <2>3, <2>4, RowsStay DEF AdviceTypes
  <2> QED BY <1>1, <2>5, NobodyCalm
<1> QED BY <1>3, <1>4 DEF R!Change

LEMMA AdviceAges ==
    ASSUME R!AdviceInv, NEW i \in R!Id, R!Ages(i)
    PROVE  R!AdviceInv'
<1> USE AdviceParts
<1>1. i \in R!Made /\ calm' = {} /\ UNCHANGED <<need, gone, copilot, user>>
  BY DEF R!Ages
<1>2. /\ rec' \in Rows /\ \A j \in R!Id : j # i => rec'[j] = rec[j]
      /\ rec'[i].status = rec[i].status
      /\ \/ rec'[i].old /\ (rec'[i].past <=> rec[i].past) /\ \A j \in R!Made : j < i => rec[j].old
         \/ (rec'[i].old <=> rec[i].old) /\ rec'[i].past /\ rec[i].old
  <2>1. CASE /\ rec' = [rec EXCEPT ![i].old = TRUE] /\ \A j \in R!Made : j < i => rec[j].old
             /\ ~rec[i].old
    BY <1>1, <2>1, RowOld DEF AdviceTypes
  <2>2. CASE rec' = [rec EXCEPT ![i].past = TRUE] /\ rec[i].old
    BY <1>1, <2>2, RowPast DEF AdviceTypes
  <2> QED BY <2>1, <2>2 DEF R!Ages
<1>3. AdviceTypes'
  BY <1>1, <1>2 DEF AdviceTypes
<1>4. /\ R!Made = {j \in R!Id : rec[j].status # "none"}
      /\ R!Made' = {j \in R!Id : rec'[j].status # "none"}
      /\ R!Of({"suggested"}) = {j \in R!Id : rec[j].status = "suggested"}
      /\ R!Of({"suggested"})' = {j \in R!Id : rec'[j].status = "suggested"}
  BY <1>2, AdviceOf, AdviceOfNext DEF AdviceTypes, Rows
<1>5. R!Made' = R!Made /\ R!Of({"suggested"})' = R!Of({"suggested"})
  BY <1>2, <1>4
<1>6. R!Numbered' /\ R!OneOpen'
  BY <1>1, <1>5 DEF RowsInv, R!Numbered, R!OneOpen
<1>7. R!Aging'
  <2>1. ASSUME NEW k \in R!Made, rec'[k].past PROVE rec'[k].old
    BY <1>1, <1>2, <1>4, <2>1 DEF RowsInv, R!Aging
  <2>2. ASSUME NEW k \in R!Made, rec'[k].old, NEW j \in R!Made, j < k PROVE rec'[j].old
    <3>1. rec[j].old
      BY <1>1, <1>2, <1>4, <2>2 DEF RowsInv, R!Aging
    <3> QED BY <1>1, <1>2, <1>4, <2>2, <3>1
  <2> QED BY <1>5, <2>1, <2>2 DEF R!Aging
<1> QED BY <1>1, <1>3, <1>6, <1>7, NobodyCalm DEF RowsInv

LEMMA AdviceInit ==
    ASSUME R!Init
    PROVE  R!AdviceInv
<1> USE AdviceParts
<1>1. /\ need \in Nat /\ gone = FALSE /\ calm = {} /\ R!Made = {}
      /\ \A v \in User : user[v] = R!Idle
  BY AdviceAssumption DEF R!Init, R!Made
<1>2. AdviceTypes
  BY <1>1, AdviceJobs DEF R!Init, AdviceTypes, Rows
<1>3. R!Made = 1..0 /\ 0 \in 0..MaxRecs
  BY <1>1, AdviceAssumption
<1>4. RowsInv
  BY <1>1, <1>3 DEF RowsInv, R!Numbered, R!Aging, R!OneOpen, R!Of
<1>5. CalmInv
  BY <1>1 DEF CalmInv, R!RunTells
<1> QED BY <1>1, <1>2, <1>4, <1>5

LEMMA AdviceStep ==
    ASSUME R!AdviceInv, R!Next \/ UNCHANGED <<need, gone, rec, copilot, user, calm>>
    PROVE  R!AdviceInv'
<1>1. CASE UNCHANGED <<need, gone, rec, copilot, user, calm>>
  <2>1. AdviceTypes' /\ RowsInv' /\ (gone' => need' = 0)
    BY <1>1, AdviceParts DEF AdviceTypes, RowsInv, R!Numbered, R!Aging, R!OneOpen, R!Of, R!Made
  <2> QED BY <1>1, <2>1, AdviceParts, CalmStays
<1>2. CASE R!Next
  BY <1>2, AdviceExpireStale, AdviceReadProducts, AdviceExpireOrphans, AdviceLoadRecs, AdviceWrite,
     AdviceFail, AdviceAnswer, AdviceAsk, AdviceDecide, AdviceChange, AdviceAges DEF R!Next
<1> QED BY <1>1, <1>2

\* No step rewrites the figures of a row that is decided before and after it.
LEMMA AdviceFrozen ==
    ASSUME R!AdviceInv, R!Next, NEW i \in R!Id, i \in R!Of(Decided), rec'[i].status \in Decided
    PROVE  rec'[i].need = rec[i].need
<1> USE AdviceParts
<1>1. i \in R!Made /\ rec[i].status \in Decided /\ rec[i].status # "suggested"
  BY AdviceRows DEF R!Of
<1>2. CASE rec' = rec
  BY <1>2
<1>3. ASSUME NEW U \in SUBSET R!Made, rec' = R!Expired(U) PROVE rec'[i].need = rec[i].need
  BY <1>3, RowExpires DEF AdviceTypes, Kept
<1>4. ASSUME NEW r \in Other, R!ExpireStale(r) PROVE rec'[i].need = rec[i].need
  BY <1>3, <1>4 DEF R!ExpireStale, R!Of
<1>5. ASSUME NEW r \in Other, R!ExpireOrphans(r) PROVE rec'[i].need = rec[i].need
  BY <1>2, <1>3, <1>5 DEF R!ExpireOrphans, R!Of
<1>6. CASE R!Change
  BY <1>2, <1>3, <1>6 DEF R!Change, R!Of
<1>7. ASSUME NEW k \in R!Id, R!Ages(k) PROVE rec'[i].need = rec[i].need
  <2>1. k \in R!Made /\ (\/ rec' = [rec EXCEPT ![k].old = TRUE]
                         \/ rec' = [rec EXCEPT ![k].past = TRUE])
    BY <1>7 DEF R!Ages
  <2>2. Kept(rec', k) /\ \A j \in R!Id : j # k => rec'[j] = rec[j]
    BY <2>1, RowOld, RowPast DEF AdviceTypes
  <2> QED BY <2>2 DEF Kept
<1>8. ASSUME NEW u \in User, R!Decide(u) PROVE rec'[i].need = rec[i].need
  <2>1. PICK k, s : k = user[u].id /\ s = user[u].to
    OBVIOUS
  <2>2. k \in R!Made /\ s \in R!Active
    BY <1>8, <2>1 DEF R!Decide, AdviceTypes, RowsInv, R!Numbered
  <2>3. rec' = rec \/ rec' = [rec EXCEPT ![k].status = s, ![k].past = FALSE]
    BY <1>8, <2>1 DEF R!Decide
  <2>4. CASE rec' = [rec EXCEPT ![k].status = s, ![k].past = FALSE]
    <3>1. Kept(rec', k) /\ \A j \in R!Id : j # k => rec'[j] = rec[j]
      BY <2>2, <2>4, RowDecided DEF AdviceTypes
    <3> QED BY <3>1 DEF Kept
  <2> QED BY <1>2, <2>3, <2>4
<1>9. ASSUME NEW r \in Other, R!Write(r) PROVE rec'[i].need = rec[i].need
  <2>1. PICK ok \in BOOLEAN : rec' = R!Written(r, ok)
    BY <1>9 DEF R!Write
  <2>2. R!At(r, "write")
    BY <1>9 DEF R!Write
  <2>3. PICK n \in Nat, k \in R!Id \cup {0} : n = copilot[r].need /\ k = copilot[r].id
    BY <2>2, AdviceJobFields DEF AdviceTypes, R!At
  <2>4. CASE rec' = R!Expired(R!Of({"suggested"}))
    BY <1>3, <2>4 DEF R!Of
  <2>5. CASE k \in R!Of({"suggested"}) /\ \/ rec' = [rec EXCEPT ![k].need = n]
                                          \/ rec' = [rec EXCEPT ![k].need = n, ![k].pending = ~ok]
    <3>1. k \in R!Made /\ k # i
      BY <1>1, <2>5 DEF R!Of
    <3>2. rec'[i] = rec[i]
      BY <1>1, <2>3, <2>5, <3>1, RowRefreshed, RowRewritten DEF AdviceTypes
    <3> QED BY <3>2
  <2>6. ASSUME NEW m \in Nat, R!Made = 1..m, m + 1 \in R!Id,
               rec' = [rec EXCEPT ![m + 1] = [status |-> "suggested", need |-> n, pending |-> ~ok,
                                              old |-> FALSE, past |-> FALSE]]
        PROVE  rec'[i].need = rec[i].need
    <3>1. i # m + 1
      BY <1>1, <2>6
    <3>2. rec'[i] = rec[i]
      BY <2>6, <3>1 DEF AdviceTypes, Rows
    <3> QED BY <3>2
  <2>7. copilot[r].plan = "insert" => R!Made # R!Id \/ R!Of({"suggested"}) # {}
    BY <1>9 DEF R!Write
  <2> QED BY <1>2, <2>1, <2>2, <2>3, <2>4, <2>5, <2>6, <2>7, WriteIs DEF RowsInv
<1>10. ASSUME NEW r \in Other, R!ReadProducts(r) \/ R!LoadRecs(r) \/ R!Fail(r) \/ R!Answer(r)
       PROVE  rec' = rec
  BY <1>10 DEF R!ReadProducts, R!LoadRecs, R!Fail, R!Answer
<1>11. ASSUME NEW u \in User, R!Ask(u) PROVE rec' = rec
  BY <1>11 DEF R!Ask
<1> QED BY <1>2, <1>4, <1>5, <1>6, <1>7, <1>8, <1>9, <1>10, <1>11 DEF R!Next

LEMMA AdviceSuffices == R!AdviceInv => R!RunTells
  BY DEF R!AdviceInv

(***************************************************************************)
(* The form of a quote.                                                    *)
(***************************************************************************)

Form == Nat \ {0}
QuoteRow == [form : Form, status : {"draft", "sent"}, inline : BOOLEAN]
PageRow == [at : {"new", "detail"}, form : Form, id : Nat, muted : BOOLEAN, editable : BOOLEAN]
CallPlace == {"persist", "created", "persisted", "transition", "sent", "pushing", "refused"}
CallRow == [at : CallPlace, sending : BOOLEAN, mine : BOOLEAN, form : Form, id : Nat]

EditorTypes ==
    /\ quote \in Seq(QuoteRow) /\ text \in Nat /\ forms \in Nat
    /\ page \in {Q!Away} \cup PageRow /\ (page # Q!Away => page.id \in 0..Len(quote))
    /\ call \in [Run -> {Q!Idle} \cup CallRow]
    /\ \A c \in Run : call[c] # Q!Idle => call[c].id \in 0..Len(quote)

LEMMA QuoteSeq ==
    /\ \A s : Q!Len(s) = Len(s) /\ Q!Seq(s) = Seq(s)
    /\ \A s, x : Q!Append(s, x) = Append(s, x)
  BY DEF Q!Len, Q!Seq, Q!Append

LEMMA PageRows ==
    ASSUME NEW n \in Nat, NEW x
    PROVE  x \in {Q!Away} \cup [at : {"new", "detail"}, form : Form, id : 0..n,
                                muted : BOOLEAN, editable : BOOLEAN]
             <=> x \in {Q!Away} \cup PageRow /\ (x # Q!Away => x.id \in 0..n)
<1>1. ASSUME x \in PageRow, x.id \in 0..n
      PROVE  x \in [at : {"new", "detail"}, form : Form, id : 0..n, muted : BOOLEAN, editable : BOOLEAN]
  BY <1>1 DEF PageRow
<1>2. ASSUME x \in [at : {"new", "detail"}, form : Form, id : 0..n, muted : BOOLEAN, editable : BOOLEAN]
      PROVE  x \in PageRow /\ x.id \in 0..n
  BY <1>2 DEF PageRow
<1> QED BY <1>1, <1>2

LEMMA CallRows ==
    ASSUME NEW n \in Nat, NEW x
    PROVE  x \in {Q!Idle} \cup [at : CallPlace, sending : BOOLEAN, mine : BOOLEAN, form : Form, id : 0..n]
             <=> x \in {Q!Idle} \cup CallRow /\ (x # Q!Idle => x.id \in 0..n)
<1>1. ASSUME x \in CallRow, x.id \in 0..n
      PROVE  x \in [at : CallPlace, sending : BOOLEAN, mine : BOOLEAN, form : Form, id : 0..n]
  BY <1>1 DEF CallRow
<1>2. ASSUME x \in [at : CallPlace, sending : BOOLEAN, mine : BOOLEAN, form : Form, id : 0..n]
      PROVE  x \in CallRow /\ x.id \in 0..n
  BY <1>2 DEF CallRow
<1> QED BY <1>1, <1>2

LEMMA CallTable ==
    ASSUME NEW n \in Nat, NEW f
    PROVE  f \in [Run -> {Q!Idle} \cup [at : CallPlace, sending : BOOLEAN, mine : BOOLEAN,
                                        form : Form, id : 0..n]]
             <=> /\ f \in [Run -> {Q!Idle} \cup CallRow]
                 /\ \A c \in Run : f[c] # Q!Idle => f[c].id \in 0..n
<1> DEFINE Rowed == {Q!Idle} \cup [at : CallPlace, sending : BOOLEAN, mine : BOOLEAN, form : Form, id : 0..n]
           Calls == {Q!Idle} \cup CallRow
<1>1. \A x : x \in Rowed <=> x \in Calls /\ (x # Q!Idle => x.id \in 0..n)
  BY CallRows
<1> HIDE DEF Rowed, Calls
<1>2. f \in [Run -> Rowed] <=> f \in [Run -> Calls] /\ \A c \in Run : f[c] # Q!Idle => f[c].id \in 0..n
  BY <1>1
<1> QED BY <1>2 DEF Rowed, Calls

LEMMA EditorTypesOK == (Q!TypeOK <=> EditorTypes) /\ (Q!TypeOK' <=> EditorTypes')
<1>1. quote \in Seq(QuoteRow) => Len(quote) \in Nat
  OBVIOUS
<1>2. quote' \in Seq(QuoteRow) => Len(quote') \in Nat
  OBVIOUS
<1>3. Q!TypeOK <=> EditorTypes
  <2>1. CASE quote \in Seq(QuoteRow)
    BY <1>1, <2>1, PageRows, CallTable DEF Q!TypeOK, EditorTypes, QuoteRow, CallPlace, Form
  <2>2. CASE quote \notin Seq(QuoteRow)
    BY <2>2 DEF Q!TypeOK, EditorTypes, QuoteRow, Form
  <2> QED BY <2>1, <2>2
<1>4. Q!TypeOK' <=> EditorTypes'
  <2>1. CASE quote' \in Seq(QuoteRow)
    BY <1>2, <2>1, PageRows, CallTable DEF Q!TypeOK, EditorTypes, QuoteRow, CallPlace, Form
  <2>2. CASE quote' \notin Seq(QuoteRow)
    BY <2>2 DEF Q!TypeOK, EditorTypes, QuoteRow, Form
  <2> QED BY <2>1, <2>2
<1> QED BY <1>3, <1>4

LEMMA EditorParts ==
    /\ Q!EditorInv <=> EditorTypes /\ Q!Linked /\ Q!Owned /\ Q!Unmade /\ Q!Over /\ Q!OneQuoteOfAForm
    /\ Q!EditorInv' <=> /\ EditorTypes' /\ Q!Linked' /\ Q!Owned' /\ Q!Unmade' /\ Q!Over'
                        /\ Q!OneQuoteOfAForm'
  BY EditorTypesOK DEF Q!EditorInv

LEMMA CallFields ==
    \A x \in {Q!Idle} \cup CallRow :
        /\ x.at = "idle" <=> x = Q!Idle
        /\ x.at # "idle" => /\ x \in CallRow /\ x.at \in CallPlace /\ x.form \in Form /\ x.id \in Nat
                            /\ x.sending \in BOOLEAN /\ x.mine \in BOOLEAN
  BY DEF Q!Idle, CallRow, CallPlace

LEMMA PageFields ==
    \A x \in {Q!Away} \cup PageRow :
        /\ x.at = "away" <=> x = Q!Away
        /\ x # Q!Away => /\ x \in PageRow /\ x.at \in {"new", "detail"} /\ x.form \in Form /\ x.id \in Nat
                         /\ x.muted \in BOOLEAN /\ x.editable \in BOOLEAN
  BY DEF Q!Away, PageRow

LEMMA QuoteRows ==
    ASSUME quote \in Seq(QuoteRow), NEW q \in DOMAIN quote
    PROVE  /\ quote[q] \in QuoteRow /\ quote[q].form \in Form /\ quote[q].status \in {"draft", "sent"}
           /\ quote[q].inline \in BOOLEAN /\ q \in 1..Len(quote)
<1>1. PICK x : x = quote[q]
  OBVIOUS
<1>2. x \in QuoteRow /\ q \in 1..Len(quote)
  BY <1>1
<1> QED BY <1>1, <1>2 DEF QuoteRow

\* A call takes a step.
LEMMA CallGoes ==
    ASSUME call \in [Run -> {Q!Idle} \cup CallRow], NEW c \in Run, NEW x \in {Q!Idle} \cup CallRow,
           call' = [call EXCEPT ![c] = x]
    PROVE  /\ call' \in [Run -> {Q!Idle} \cup CallRow] /\ call'[c] = x
           /\ \A d \in Run : d # c => call'[d] = call[d]
  OBVIOUS

\* The page moves: the calls under way are no longer its own.
Left(x, y) == y.at = x.at /\ y.form = x.form /\ y.id = x.id /\ (y.sending <=> x.sending) /\ ~y.mine

LEMMA Orphans ==
    ASSUME call \in [Run -> {Q!Idle} \cup CallRow], NEW f, f = Q!Orphaned
    PROVE  /\ f \in [Run -> {Q!Idle} \cup CallRow]
           /\ \A d \in Run : IF call[d] = Q!Idle THEN f[d] = Q!Idle
                             ELSE f[d] # Q!Idle /\ f[d] \in CallRow /\ Left(call[d], f[d])
<1>1. ASSUME NEW d \in Run, call[d] # Q!Idle
      PROVE  f[d] # Q!Idle /\ f[d] \in CallRow /\ Left(call[d], f[d])
  <2>1. call[d] \in CallRow /\ ~Q!IsAt(d, "idle")
    BY <1>1, CallFields DEF Q!IsAt
  <2>2. PICK x : x = [call[d] EXCEPT !.mine = FALSE]
    OBVIOUS
  <2>3. x \in CallRow /\ Left(call[d], x)
    BY <2>1, <2>2 DEF CallRow, Left
  <2>4. f[d] = x
    BY <2>1, <2>2 DEF Q!Orphaned
  <2>5. x.at # "idle"
    BY <2>3 DEF CallRow, CallPlace
  <2> QED BY <2>3, <2>4, <2>5 DEF Q!Idle
<1>2. ASSUME NEW d \in Run, call[d] = Q!Idle PROVE f[d] = Q!Idle
  BY <1>2 DEF Q!Orphaned, Q!IsAt, Q!Idle
<1>3. f = [d \in Run |-> f[d]]
  BY DEF Q!Orphaned
<1>4. \A d \in Run : f[d] \in {Q!Idle} \cup CallRow
  BY <1>1, <1>2
<1> QED BY <1>1, <1>2, <1>3, <1>4

\* The invariant, call by call and quote by quote.
Active(c) == call[c] # Q!Idle
On(f) == page # Q!Away /\ page.form = f

LEMMA EditorIs ==
    ASSUME EditorTypes
    PROVE  /\ Q!Busy = {c \in Run : Active(c)} /\ Q!Mine = {c \in Run : Active(c) /\ call[c].mine}
           /\ \A f : Q!Shows(f) <=> On(f)
  BY CallFields DEF Q!Busy, Q!Mine, Q!IsAt, Q!Shows, On, Active, EditorTypes

LEMMA EditorIsNext ==
    ASSUME EditorTypes'
    PROVE  /\ Q!Busy' = {c \in Run : Active(c)'} /\ Q!Mine' = {c \in Run : Active(c)' /\ call'[c].mine}
           /\ \A f : Q!Shows(f)' <=> page' # Q!Away /\ page'.form = f
  BY CallFields DEF Q!Busy, Q!Mine, Q!IsAt, Q!Shows, On, Active, EditorTypes

\* The page shows another form: what it leaves goes on, but is no longer its own.
LEMMA EditorMoves ==
    ASSUME Q!EditorInv, quote' = quote, forms' \in Nat, text' \in Nat, reused \subseteq reused',
           call' \in [Run -> {Q!Idle} \cup CallRow],
           \A d \in Run : call'[d] # Q!Idle => call[d] # Q!Idle /\ Left(call[d], call'[d]),
           page' \in PageRow, ~page'.muted, page'.id \in 0..Len(quote),
           page'.id # 0 => quote[page'.id].form = page'.form,
           page'.at = "detail" => page'.id # 0,
           \A d \in Run : call'[d] # Q!Idle /\ call[d].form = page'.form => page'.form \in reused',
           page'.id = 0 /\ page'.form \notin reused' => Q!Made(page'.form) = {},
           \A q \in DOMAIN quote : quote[q].inline /\ quote[q].form = page'.form =>
              quote[q].form \in reused' \/ ~page'.editable,
           \A q \in DOMAIN quote : quote[q].inline /\ text' = quote[q].form =>
              quote[q].form \in reused' \/ \E c \in Run : call'[c] # Q!Idle /\ call'[c].at = "sent" /\ call'[c].id = q
    PROVE  Q!EditorInv'
<1> USE EditorParts
<1>1. page' # Q!Away
  <2>1. page'.at # "away"
    BY DEF PageRow
  <2> QED BY <2>1 DEF Q!Away
<1>2. EditorTypes'
  BY <1>1 DEF EditorTypes, Left
<1>3. /\ Q!Busy = {c \in Run : Active(c)} /\ Q!Mine = {c \in Run : Active(c) /\ call[c].mine}
      /\ Q!Busy' = {c \in Run : Active(c)'} /\ Q!Mine' = {c \in Run : Active(c)' /\ call'[c].mine}
      /\ (\A f : Q!Shows(f) <=> On(f)) /\ \A f : Q!Shows(f)' <=> page' # Q!Away /\ page'.form = f
  BY <1>2, EditorIs, EditorIsNext
<1>4. Q!Mine' = {} /\ Q!Busy' \subseteq Q!Busy /\ \A d \in Q!Busy' : Left(call[d], call'[d])
  BY <1>3 DEF Active, Left
<1>5. Q!Linked'
  BY <1>1, <1>4 DEF Q!Linked, Left
<1>6. Q!Owned'
  BY <1>3, <1>4 DEF Q!Owned, Left, Active
<1>7. Q!Unmade'
  BY <1>4 DEF Q!Unmade, Q!Made, Left, Q!IsAt
<1>8. Q!Over'
  BY <1>3, <1>4 DEF Q!Over, Left
<1>9. Q!OneQuoteOfAForm'
  BY DEF Q!OneQuoteOfAForm, Q!IsAt
<1> QED BY <1>2, <1>5, <1>6, <1>7, <1>8, <1>9

LEMMA UnderWayIs ==
    ASSUME EditorTypes, NEW f
    PROVE  Q!UnderWay(f) <=> \E c \in Run : call[c] # Q!Idle /\ call[c].form = f
  BY CallFields DEF Q!UnderWay, Q!IsAt, EditorTypes

LEMMA EditorOpenNew ==
    ASSUME Q!EditorInv, Q!OpenNew
    PROVE  Q!EditorInv'
<1> USE EditorParts
<1>1. PICK f \in Form : f = IF text # 0 THEN text ELSE forms + 1
  BY DEF EditorTypes, Form
<1>2. /\ forms' = (IF text # 0 THEN forms ELSE f) /\ text' = f
      /\ page' = [at |-> "new", form |-> f, id |-> 0, muted |-> FALSE, editable |-> TRUE]
      /\ reused' = IF \/ \E q \in DOMAIN quote : quote[q].form = f
                      \/ Q!UnderWay(f)
                   THEN reused \cup {f} ELSE reused
      /\ quote' = quote /\ call' = Q!Orphaned
  BY <1>1 DEF Q!OpenNew
<1>3. /\ page' \in PageRow /\ page'.at = "new" /\ page'.form = f /\ page'.id = 0 /\ ~page'.muted
  BY <1>2 DEF PageRow
<1>4. forms' \in Nat /\ text' \in Nat /\ reused \subseteq reused' /\ 0 \in 0..Len(quote)
  BY <1>1, <1>2 DEF EditorTypes, Form
<1>5. /\ call' \in [Run -> {Q!Idle} \cup CallRow]
      /\ \A d \in Run : call'[d] # Q!Idle => call[d] # Q!Idle /\ Left(call[d], call'[d])
  BY <1>2, Orphans DEF EditorTypes
<1>6. \A d \in Run : call'[d] # Q!Idle /\ call[d].form = f => f \in reused'
  BY <1>2, <1>5, UnderWayIs
<1>7. \A q \in DOMAIN quote : quote[q].form = f => f \in reused'
  BY <1>2
<1>8. f \notin reused' => Q!Made(f) = {}
  BY <1>7 DEF Q!Made
<1> QED BY <1>2, <1>3, <1>4, <1>5, <1>6, <1>7, <1>8, EditorMoves

LEMMA DetailIs ==
    ASSUME EditorTypes, NEW q \in DOMAIN quote
    PROVE  /\ Q!Detail(q) \in PageRow /\ Q!Detail(q).at = "detail" /\ Q!Detail(q).form = quote[q].form
           /\ Q!Detail(q).id = q /\ ~Q!Detail(q).muted
           /\ (Q!Detail(q).editable <=> quote[q].status = "draft") /\ q \in 1..Len(quote)
<1>1. quote[q].form \in Form /\ q \in 1..Len(quote)
  BY QuoteRows DEF EditorTypes
<1>2. PICK b \in BOOLEAN : b <=> quote[q].status = "draft"
  OBVIOUS
<1>3. Q!Detail(q) = [at |-> "detail", form |-> quote[q].form, id |-> q, muted |-> FALSE,
                     editable |-> quote[q].status = "draft"]
  BY DEF Q!Detail
<1>4. Q!Detail(q) = [at |-> "detail", form |-> quote[q].form, id |-> q, muted |-> FALSE, editable |-> b]
  BY <1>2, <1>3
<1> QED BY <1>1, <1>2, <1>4 DEF PageRow, EditorTypes

LEMMA EditorOpenQuote ==
    ASSUME Q!EditorInv, NEW n \in DOMAIN quote, Q!OpenQuote(n)
    PROVE  Q!EditorInv'
<1> USE EditorParts
<1>1. PICK f \in Form : f = quote[n].form
  BY QuoteRows DEF EditorTypes
<1>2. /\ forms' = forms /\ text' = (IF quote[n].status = "draft" THEN f ELSE text)
      /\ page' = Q!Detail(n) /\ quote' = quote /\ call' = Q!Orphaned
      /\ reused' = IF Q!UnderWay(f) THEN reused \cup {f} ELSE reused
  BY <1>1 DEF Q!OpenQuote
<1>3. /\ page' \in PageRow /\ page'.at = "detail" /\ page'.form = f /\ page'.id = n /\ ~page'.muted
      /\ (page'.editable <=> quote[n].status = "draft") /\ n \in 1..Len(quote)
  BY <1>1, <1>2, DetailIs
<1>4. forms' \in Nat /\ text' \in Nat /\ reused \subseteq reused' /\ n \in 0..Len(quote) /\ n # 0
  BY <1>1, <1>2, <1>3 DEF EditorTypes, Form
<1>5. /\ call' \in [Run -> {Q!Idle} \cup CallRow]
      /\ \A d \in Run : call'[d] # Q!Idle => call[d] # Q!Idle /\ Left(call[d], call'[d])
      /\ \A d \in Run : call[d] # Q!Idle => call'[d] # Q!Idle
  BY <1>2, Orphans DEF EditorTypes
<1>6. \A d \in Run : call'[d] # Q!Idle /\ call[d].form = f => f \in reused'
  BY <1>2, <1>5, UnderWayIs
<1>7. ASSUME NEW q \in DOMAIN quote, quote[q].inline, quote[q].form = f, f \notin reused'
      PROVE  quote[n].status = "sent"
  <2>1. q = n
    BY <1>1, <1>4, <1>7 DEF Q!OneQuoteOfAForm
  <2> QED BY <1>7, <2>1 DEF Q!Linked
<1>8. ASSUME NEW q \in DOMAIN quote, quote[q].inline, text' = quote[q].form, quote[q].form \notin reused'
      PROVE  \E c \in Run : call'[c] # Q!Idle /\ call'[c].at = "sent" /\ call'[c].id = q
  <2>1. text = quote[q].form
    BY <1>2, <1>7, <1>8
  <2>2. PICK c \in Run : call[c].at = "sent" /\ call[c].id = q
    BY <1>4, <1>8, <2>1 DEF Q!OneQuoteOfAForm, Q!IsAt
  <2>3. call[c] # Q!Idle
    BY <2>2 DEF Q!Idle
  <2> QED BY <1>5, <2>2, <2>3 DEF Left
<1> QED BY <1>1, <1>2, <1>3, <1>4, <1>5, <1>6, <1>7, <1>8, EditorMoves

LEMMA EditorPush ==
    ASSUME Q!EditorInv, NEW c \in Run, Q!Push(c)
    PROVE  Q!EditorInv'
<1> USE EditorParts
<1>1. PICK n : n = call[c].id
  OBVIOUS
<1>2. /\ page' = Q!Detail(n) /\ call' = [Q!Orphaned EXCEPT ![c] = Q!Idle] /\ call[c].at = "pushing"
      /\ UNCHANGED <<quote, text, forms, reused>>
  BY <1>1 DEF Q!Push, Q!IsAt
<1>3. call[c] # Q!Idle /\ c \in Q!Busy
  BY <1>2, EditorIs DEF Q!Idle, Active
<1>4. n # 0 /\ n \in 0..Len(quote) /\ quote[n].form = call[c].form
  BY <1>1, <1>2, <1>3 DEF EditorTypes, Q!Linked
<1>5. n \in DOMAIN quote
  BY <1>4 DEF EditorTypes
<1>6. PICK f \in Form : f = quote[n].form
  BY <1>5, QuoteRows DEF EditorTypes
<1>7. /\ page' \in PageRow /\ page'.at = "detail" /\ page'.form = f /\ page'.id = n /\ ~page'.muted
      /\ (page'.editable <=> quote[n].status = "draft")
  BY <1>2, <1>5, <1>6, DetailIs
<1>8. /\ call' \in [Run -> {Q!Idle} \cup CallRow] /\ call'[c] = Q!Idle
      /\ \A d \in Run : call'[d] # Q!Idle => call[d] # Q!Idle /\ Left(call[d], call'[d])
      /\ \A d \in Run \ {c} : call[d] # Q!Idle => call'[d] # Q!Idle
  <2>1. PICK g : g = Q!Orphaned
    OBVIOUS
  <2> QED BY <1>2, <2>1, Orphans DEF EditorTypes
<1>9. ASSUME NEW d \in Run, call'[d] # Q!Idle, call[d].form = f PROVE f \in reused'
  <2>1. d # c /\ d \in Q!Busy
    BY <1>8, <1>9, EditorIs DEF Active
  <2> QED BY <1>2, <1>3, <1>4, <1>6, <1>9, <2>1 DEF Q!Owned
<1>10. ASSUME NEW q \in DOMAIN quote, quote[q].inline, quote[q].form = f, f \notin reused'
       PROVE  ~page'.editable
  <2>1. q = n
    BY <1>2, <1>5, <1>6, <1>10 DEF Q!OneQuoteOfAForm
  <2> QED BY <1>7, <1>10, <2>1 DEF Q!Linked
<1>11. ASSUME NEW q \in DOMAIN quote, quote[q].inline, text' = quote[q].form, quote[q].form \notin reused'
       PROVE  \E d \in Run : call'[d] # Q!Idle /\ call'[d].at = "sent" /\ call'[d].id = q
  <2>1. PICK d \in Run : call[d].at = "sent" /\ call[d].id = q
    BY <1>2, <1>11 DEF Q!OneQuoteOfAForm, Q!IsAt
  <2>2. d # c /\ call[d] # Q!Idle
    BY <1>2, <2>1 DEF Q!Idle
  <2> QED BY <1>8, <2>1, <2>2 DEF Left
<1>12. forms' \in Nat /\ text' \in Nat
  BY <1>2 DEF EditorTypes
<1> QED BY <1>2, <1>4, <1>6, <1>7, <1>8, <1>9, <1>10, <1>11, <1>12, EditorMoves

LEMMA EditorClose ==
    ASSUME Q!EditorInv, Q!Close
    PROVE  Q!EditorInv'
<1> USE EditorParts
<1>1. /\ page' = Q!Away /\ call' = [c \in Run |-> Q!Idle] /\ UNCHANGED <<quote, text, forms>>
      /\ reused' = reused \cup {call[c].form : c \in {d \in Run : Q!Unheard(d)}}
  BY DEF Q!Close
<1>2. EditorTypes'
  BY <1>1 DEF EditorTypes
<1>3. Q!Busy' = {} /\ Q!Mine' = {} /\ \A f : ~Q!Shows(f)'
  BY <1>1, <1>2, EditorIsNext DEF Active
<1>4. Q!Linked' /\ Q!Owned' /\ Q!Unmade' /\ Q!Over'
  BY <1>1, <1>3 DEF Q!Linked, Q!Owned, Q!Unmade, Q!Over
<1>5. ASSUME NEW q \in DOMAIN quote, quote[q].inline, text = quote[q].form, quote[q].form \notin reused
      PROVE  quote[q].form \in reused'
  <2>1. PICK c \in Run : call[c].at = "sent" /\ call[c].id = q
    BY <1>5 DEF Q!OneQuoteOfAForm, Q!IsAt
  <2>2. c \in Q!Busy /\ Q!Unheard(c)
    BY <2>1, EditorIs DEF Q!Idle, Active, Q!Unheard, Q!IsAt
  <2>3. q # 0
    BY <1>5 DEF EditorTypes
  <2>4. quote[q].form = call[c].form
    BY <2>1, <2>2, <2>3 DEF Q!Linked
  <2> QED BY <1>1, <2>2, <2>4
<1>6. Q!OneQuoteOfAForm'
  BY <1>1, <1>5 DEF Q!OneQuoteOfAForm
<1> QED BY <1>2, <1>4, <1>6

LEMMA EditorEdit ==
    ASSUME Q!EditorInv, Q!Edit
    PROVE  Q!EditorInv'
<1> USE EditorParts
<1>1. /\ page # Q!Away /\ page.editable /\ ~page.muted /\ text' = page.form
      /\ UNCHANGED <<quote, forms, page, call, reused>>
  BY PageFields DEF Q!Edit, Q!Editable, Q!Muted, EditorTypes
<1>2. text' \in Nat
  BY <1>1, PageFields DEF EditorTypes, Form
<1>3. EditorTypes'
  BY <1>1, <1>2 DEF EditorTypes
<1>4. Q!Linked' /\ Q!Owned' /\ Q!Unmade' /\ Q!Over'
  BY <1>1 DEF Q!Linked, Q!Owned, Q!Unmade, Q!Over, Q!Busy, Q!Mine, Q!IsAt, Q!Made, Q!Shows
<1>5. \A q \in DOMAIN quote : quote[q].inline /\ text' = quote[q].form => quote[q].form \in reused
  BY <1>1 DEF Q!Over, Q!Shows
<1>6. Q!OneQuoteOfAForm'
  BY <1>1, <1>5 DEF Q!OneQuoteOfAForm
<1> QED BY <1>3, <1>4, <1>6

\* The statuses of the quotes change, their forms do not.
LEMMA QuoteGoes ==
    ASSUME quote \in Seq(QuoteRow), NEW n \in DOMAIN quote, NEW x \in QuoteRow,
           quote' = [quote EXCEPT ![n] = x]
    PROVE  /\ quote' \in Seq(QuoteRow) /\ Len(quote') = Len(quote) /\ DOMAIN quote' = DOMAIN quote
           /\ quote'[n] = x /\ \A q \in DOMAIN quote : q # n => quote'[q] = quote[q]
  OBVIOUS

LEMMA EditorSendSaved ==
    ASSUME Q!EditorInv, Q!SendSaved
    PROVE  Q!EditorInv'
<1> USE EditorParts
<1>1. PICK n : n = page.id
  OBVIOUS
<1>2. /\ page.at = "detail" /\ UNCHANGED <<text, forms, call, reused>>
      /\ quote' = [quote EXCEPT ![n] = [quote[n] EXCEPT !.status = "sent"]]
      /\ page' = [page EXCEPT !.editable = FALSE]
  BY <1>1 DEF Q!SendSaved
<1>3. page # Q!Away
  BY <1>2 DEF Q!Away
<1>4. n \in DOMAIN quote
  BY <1>1, <1>2, <1>3 DEF EditorTypes, Q!Linked
<1>5. PICK x : x = [quote[n] EXCEPT !.status = "sent"]
  OBVIOUS
<1>6. x \in QuoteRow /\ x.form = quote[n].form /\ x.status = "sent" /\ (x.inline <=> quote[n].inline)
  BY <1>4, <1>5, QuoteRows DEF QuoteRow, EditorTypes
<1>7. /\ quote' \in Seq(QuoteRow) /\ Len(quote') = Len(quote) /\ DOMAIN quote' = DOMAIN quote
      /\ quote'[n] = x /\ \A q \in DOMAIN quote : q # n => quote'[q] = quote[q]
  BY <1>2, <1>4, <1>5, <1>6, QuoteGoes DEF EditorTypes
<1>8. \A q \in DOMAIN quote : /\ quote'[q].form = quote[q].form /\ (quote'[q].inline <=> quote[q].inline)
                              /\ quote[q].status = "sent" => quote'[q].status = "sent"
  BY <1>6, <1>7
<1>9. PICK y : y = page'
  OBVIOUS
<1>10. /\ y \in PageRow /\ y.at = "detail" /\ y.form = page.form /\ y.id = n /\ (y.muted <=> page.muted)
       /\ ~y.editable
  BY <1>1, <1>2, <1>3, <1>9, PageFields DEF PageRow, EditorTypes
<1>11. y # Q!Away
  BY <1>10 DEF Q!Away
<1>12. EditorTypes'
  BY <1>1, <1>2, <1>3, <1>7, <1>9, <1>10 DEF EditorTypes
<1>13. /\ Q!Busy' = Q!Busy /\ Q!Mine' = Q!Mine /\ \A f : Q!Shows(f)' <=> Q!Shows(f)
  BY <1>2, <1>3, <1>9, <1>10, <1>11, <1>12, EditorIs, EditorIsNext DEF Active, On
<1>14. \A f : Q!Made(f)' = Q!Made(f)
  BY <1>7, <1>8 DEF Q!Made
<1>15. Q!Linked'
  <2>1. \A q \in DOMAIN quote' : quote'[q].inline => quote'[q].status = "sent"
    BY <1>7, <1>8 DEF Q!Linked
  <2>2. \A q \in 0..Len(quote) : q # 0 => quote'[q].form = quote[q].form
    BY <1>8 DEF EditorTypes
  <2>3. /\ page'.id # 0 => quote'[page'.id].form = page'.form
        /\ page'.at = "detail" => page'.id # 0
    <3>1. n # 0 /\ quote[n].form = page.form
      BY <1>1, <1>2, <1>3 DEF Q!Linked
    <3>2. page'.id = n /\ page'.form = page.form
      BY <1>9, <1>10
    <3> QED BY <1>4, <1>8, <3>1, <3>2
  <2>4. \A c \in Q!Busy : call[c].id # 0 => quote'[call[c].id].form = call[c].form
    BY <2>2, EditorIs DEF Q!Linked, EditorTypes, Active
  <2> QED BY <1>2, <1>13, <2>1, <2>3, <2>4 DEF Q!Linked
<1>16. Q!Owned'
  BY <1>2, <1>3, <1>9, <1>10, <1>13 DEF Q!Owned
<1>17. Q!Unmade'
  BY <1>1, <1>2, <1>3, <1>9, <1>10, <1>13, <1>14 DEF Q!Unmade, Q!IsAt
<1>18. Q!Over'
  BY <1>2, <1>7, <1>8, <1>9, <1>10, <1>13 DEF Q!Over
<1>19. Q!OneQuoteOfAForm'
  BY <1>2, <1>7, <1>8 DEF Q!OneQuoteOfAForm, Q!IsAt
<1> QED BY <1>12, <1>15, <1>16, <1>17, <1>18, <1>19

LEMMA EditorStart ==
    ASSUME Q!EditorInv, NEW c \in Run, NEW sending \in BOOLEAN, Q!Start(c, sending)
    PROVE  Q!EditorInv'
<1> USE EditorParts
<1>1. /\ page # Q!Away /\ page.editable /\ Q!Mine = {} /\ call[c] = Q!Idle
      /\ UNCHANGED <<quote, text, forms, reused>>
  BY PageFields, CallFields DEF Q!Start, Q!Ready, Q!Editable, Q!IsAt, EditorTypes
<1>2. PICK x : x = [at |-> "persist", sending |-> sending, mine |-> TRUE, form |-> page.form, id |-> page.id]
  OBVIOUS
<1>3. /\ x \in CallRow /\ x.at = "persist" /\ (x.sending <=> sending) /\ x.mine /\ x.form = page.form
      /\ x.id = page.id /\ x # Q!Idle
  BY <1>1, <1>2, PageFields DEF CallRow, CallPlace, EditorTypes, Q!Idle
<1>4. /\ call' \in [Run -> {Q!Idle} \cup CallRow] /\ call'[c] = x
      /\ \A d \in Run : d # c => call'[d] = call[d]
  BY <1>2, <1>3, CallGoes DEF Q!Start, EditorTypes
<1>5. ~page.muted
  BY <1>1 DEF Q!Owned
<1>6. PICK y : y = page'
  OBVIOUS
<1>7. /\ y \in PageRow /\ y # Q!Away /\ y.at = page.at /\ y.form = page.form /\ y.id = page.id
      /\ (y.muted <=> sending) /\ (y.editable <=> page.editable)
  <2>1. page \in PageRow
    BY <1>1, PageFields DEF EditorTypes
  <2>2. CASE sending
    <3>1. y = [page EXCEPT !.muted = TRUE]
      BY <1>6, <2>2 DEF Q!Start
    <3>2. /\ y \in PageRow /\ y.at = page.at /\ y.form = page.form /\ y.id = page.id
          /\ y.muted /\ (y.editable <=> page.editable)
      BY <2>1, <3>1 DEF PageRow
    <3>3. y.at # "away"
      BY <3>2 DEF PageRow
    <3> QED BY <2>2, <3>2, <3>3 DEF Q!Away
  <2>3. CASE ~sending
    <3>1. y = page
      BY <1>6, <2>3 DEF Q!Start
    <3> QED BY <1>1, <1>5, <2>1, <2>3, <3>1
  <2> QED BY <2>2, <2>3
<1>8. EditorTypes'
  BY <1>1, <1>3, <1>4, <1>6, <1>7 DEF EditorTypes
<1>9. /\ Q!Busy = {d \in Run : Active(d)} /\ Q!Mine = {d \in Run : Active(d) /\ call[d].mine}
      /\ Q!Busy' = {d \in Run : Active(d)'} /\ Q!Mine' = {d \in Run : Active(d)' /\ call'[d].mine}
      /\ \A f : Q!Shows(f) <=> On(f)
      /\ \A f : Q!Shows(f)' <=> page.form = f
  BY <1>6, <1>7, <1>8, EditorIs, EditorIsNext
<1>10. /\ c \notin Q!Busy /\ Q!Busy' = Q!Busy \cup {c} /\ Q!Mine' = {c}
       /\ \A f : Q!Shows(f)' <=> Q!Shows(f)
  BY <1>1, <1>3, <1>4, <1>9 DEF Active, On
<1>11. \A d \in Q!Busy : call[d].form = page.form => page.form \in reused
  BY <1>1, <1>9 DEF Q!Owned, On, Active
<1>12. page.id = 0 /\ page.form \notin reused => Q!Made(page.form) = {}
  BY <1>1 DEF Q!Unmade
<1>13. \A q \in DOMAIN quote : quote[q].inline /\ quote[q].form = page.form => page.form \in reused
  BY <1>1, <1>5, <1>9 DEF Q!Over, On
<1>14. Q!Linked'
  <2>1. \A q \in DOMAIN quote : quote[q].inline => quote[q].status = "sent"
    BY DEF Q!Linked
  <2>2. /\ page'.id # 0 => quote[page'.id].form = page'.form
        /\ page'.at = "detail" => page'.id # 0
    BY <1>1, <1>6, <1>7 DEF Q!Linked
  <2>3. ASSUME NEW d \in Q!Busy'
        PROVE  /\ call'[d].id # 0 => quote[call'[d].id].form = call'[d].form
               /\ call'[d].at \notin {"persist", "refused"} => call'[d].id # 0
               /\ call'[d].at \in {"transition", "sent", "pushing"} => call'[d].sending
    <3>1. CASE d = c
      BY <1>1, <1>3, <1>4, <3>1 DEF Q!Linked
    <3>2. CASE d # c
      <4>1. d \in Q!Busy /\ call'[d] = call[d]
        BY <1>4, <1>9, <1>10, <2>3, <3>2
      <4> QED BY <4>1 DEF Q!Linked
    <3> QED BY <3>1, <3>2
  <2> QED BY <1>1, <2>1, <2>2, <2>3 DEF Q!Linked
<1>15. Q!Owned'
  BY <1>1, <1>3, <1>4, <1>6, <1>7, <1>9, <1>10, <1>11 DEF Q!Owned
<1>16. Q!Unmade'
  <2>1. \A f : Q!Made(f)' = Q!Made(f)
    BY <1>1 DEF Q!Made
  <2>2. ASSUME NEW d \in Q!Busy', call'[d].at = "persist", call'[d].id = 0
        PROVE  Q!Made(call'[d].form) = {} \/ call'[d].form \in reused
    <3>1. CASE d = c
      BY <1>3, <1>4, <1>12, <2>2, <3>1
    <3>2. CASE d # c
      <4>1. d \in Q!Busy /\ call'[d] = call[d]
        BY <1>4, <1>9, <1>10, <2>2, <3>2
      <4> QED BY <2>2, <4>1 DEF Q!Unmade, Q!IsAt
    <3> QED BY <3>1, <3>2
  <2> QED BY <1>1, <1>6, <1>7, <1>12, <2>1, <2>2 DEF Q!Unmade, Q!IsAt
<1>17. Q!Over'
  BY <1>1, <1>3, <1>4, <1>6, <1>7, <1>9, <1>10, <1>13 DEF Q!Over
<1>18. \A d \in Run : Q!IsAt(d, "sent") => d # c /\ call'[d] = call[d]
  BY <1>1, <1>4 DEF Q!IsAt, Q!Idle
<1>19. Q!OneQuoteOfAForm'
  BY <1>1, <1>18 DEF Q!OneQuoteOfAForm, Q!IsAt
<1> QED BY <1>8, <1>14, <1>15, <1>16, <1>17, <1>19

\* A call goes on, and nothing else moves but the text that is kept.
LEMMA EditorGoesOn ==
    ASSUME Q!EditorInv, NEW c \in Run, call[c] # Q!Idle, NEW x \in CallRow,
           call' = [call EXCEPT ![c] = x], UNCHANGED <<quote, forms, page, reused>>, text' \in Nat,
           x.form = call[c].form, x.id = call[c].id,
           x.mine <=> call[c].mine, x.sending <=> call[c].sending,
           x.at # "persist", x.at = "refused" \/ x.id # 0,
           x.at \in {"transition", "sent", "pushing"} => x.sending,
           call[c].at # "created", x.at = "pushing" \/ call[c].at \notin {"sent", "pushing"},
           text' = 0 \/ (text' = text /\ call[c].at # "sent")
    PROVE  Q!EditorInv'
<1> USE EditorParts
<1>1. x # Q!Idle
  BY DEF CallRow, CallPlace, Q!Idle
<1>2. /\ call' \in [Run -> {Q!Idle} \cup CallRow] /\ call'[c] = x
      /\ \A d \in Run : d # c => call'[d] = call[d]
  BY CallGoes DEF EditorTypes
<1>3. EditorTypes'
  BY <1>2 DEF EditorTypes
<1>4. /\ Q!Busy = {d \in Run : Active(d)} /\ Q!Mine = {d \in Run : Active(d) /\ call[d].mine}
      /\ Q!Busy' = {d \in Run : Active(d)'} /\ Q!Mine' = {d \in Run : Active(d)' /\ call'[d].mine}
      /\ \A f : Q!Shows(f)' <=> Q!Shows(f)
  BY <1>3, EditorIs, EditorIsNext DEF On
<1>5. c \in Q!Busy /\ Q!Busy' = Q!Busy /\ Q!Mine' = Q!Mine /\ Q!Mine \subseteq Q!Busy /\ Q!Busy \subseteq Run
  BY <1>1, <1>2, <1>4 DEF Active
<1>6. \A d \in Q!Busy : /\ call'[d].form = call[d].form /\ call'[d].id = call[d].id
                        /\ (call'[d].mine <=> call[d].mine) /\ (call'[d].sending <=> call[d].sending)
                        /\ d # c => call'[d] = call[d]
  BY <1>2, <1>5
<1>7. Q!Linked'
  <2>1. ASSUME NEW d \in Q!Busy
        PROVE  /\ call'[d].id # 0 => quote[call'[d].id].form = call'[d].form
               /\ call'[d].at \notin {"persist", "refused"} => call'[d].id # 0
               /\ call'[d].at \in {"transition", "sent", "pushing"} => call'[d].sending
    <3>1. CASE d = c
      BY <1>2, <1>5, <3>1 DEF Q!Linked
    <3>2. CASE d # c
      BY <1>6, <3>2 DEF Q!Linked
    <3> QED BY <3>1, <3>2
  <2>2. \A q \in DOMAIN quote : quote[q].inline => quote[q].status = "sent"
    BY DEF Q!Linked
  <2>3. page # Q!Away => /\ page.id # 0 => quote[page.id].form = page.form
                         /\ page.at = "detail" => page.id # 0
    BY DEF Q!Linked
  <2> QED BY <1>5, <2>1, <2>2, <2>3 DEF Q!Linked
<1>8. Q!Owned'
  BY <1>4, <1>5, <1>6 DEF Q!Owned
<1>9. \A f : Q!Made(f)' = Q!Made(f)
  BY DEF Q!Made
<1>10. Q!Unmade'
  <2>1. ASSUME NEW d \in Q!Busy, call'[d].at = "persist", call'[d].id = 0
        PROVE  Q!Made(call'[d].form) = {} \/ call'[d].form \in reused
    <3>1. d # c /\ call'[d] = call[d]
      BY <1>2, <1>6, <2>1
    <3> QED BY <2>1, <3>1 DEF Q!Unmade, Q!IsAt
  <2>2. ASSUME NEW q \in Q!Made(page.form), page # Q!Away, page.id = 0, page.form \notin reused
        PROVE  \E d \in Q!Mine : call'[d].at = "created" /\ call'[d].id = q
    <3>1. PICK d \in Q!Mine : call[d].at = "created" /\ call[d].id = q
      BY <2>2 DEF Q!Unmade, Q!IsAt
    <3> QED BY <1>5, <1>6, <3>1
  <2> QED BY <1>5, <1>9, <2>1, <2>2 DEF Q!Unmade, Q!IsAt
<1>11. Q!Over'
  <2>1. ASSUME NEW q \in DOMAIN quote, quote[q].inline, quote[q].form \notin reused,
               NEW d \in Q!Busy, call'[d].form = quote[q].form
        PROVE  call'[d].at \in {"sent", "pushing"}
    <3>1. call[d].at \in {"sent", "pushing"}
      BY <1>6, <2>1 DEF Q!Over
    <3> QED BY <1>2, <1>6, <3>1
  <2> QED BY <1>4, <1>5, <2>1 DEF Q!Over
<1>12. Q!OneQuoteOfAForm'
  <2>1. ASSUME NEW q \in DOMAIN quote, quote[q].inline, text' = quote[q].form, quote[q].form \notin reused
        PROVE  \E d \in Run : call'[d].at = "sent" /\ call'[d].id = q
    <3>1. text' # 0 /\ text' = text
      BY <2>1, QuoteRows DEF EditorTypes, Form
    <3>2. text = quote[q].form /\ call[c].at # "sent"
      BY <2>1, <3>1
    <3>3. \E d \in Run : Q!IsAt(d, "sent") /\ call[d].id = q
      BY <2>1, <3>2 DEF Q!OneQuoteOfAForm
    <3>4. PICK d \in Run : call[d].at = "sent" /\ call[d].id = q
      BY <3>3 DEF Q!IsAt
    <3>5. d # c
      BY <3>2, <3>4
    <3> QED BY <1>2, <3>4, <3>5
  <2> QED BY <2>1 DEF Q!OneQuoteOfAForm, Q!IsAt
<1> QED BY <1>3, <1>7, <1>8, <1>10, <1>11, <1>12

LEMMA EditorForget ==
    ASSUME Q!EditorInv, NEW c \in Run, Q!Forget(c)
    PROVE  Q!EditorInv'
<1> USE EditorParts
<1>1. /\ call[c].at = "sent" /\ text' = 0 /\ UNCHANGED <<quote, forms, page, reused>>
      /\ call' = [call EXCEPT ![c] = [call[c] EXCEPT !.at = "pushing"]]
  BY DEF Q!Forget, Q!IsAt
<1>2. call[c] \in CallRow /\ call[c] # Q!Idle /\ c \in Q!Busy
  BY <1>1, CallFields, EditorIs DEF EditorTypes, Active
<1>3. PICK x : x = [call[c] EXCEPT !.at = "pushing"]
  OBVIOUS
<1>4. /\ x \in CallRow /\ x.at = "pushing" /\ x.form = call[c].form /\ x.id = call[c].id
      /\ (x.mine <=> call[c].mine) /\ (x.sending <=> call[c].sending)
  BY <1>2, <1>3 DEF CallRow, CallPlace
<1>5. call[c].id # 0 /\ call[c].sending
  BY <1>1, <1>2 DEF Q!Linked
<1> QED BY <1>1, <1>2, <1>3, <1>4, <1>5, EditorGoesOn

\* The server makes a quote of a form that has none, or had one before.
LEMMA EditorPersist ==
    ASSUME Q!EditorInv, NEW c \in Run, Q!Persist(c)
    PROVE  Q!EditorInv'
<1> USE EditorParts
<1>1. call[c].at = "persist" /\ UNCHANGED <<text, forms, page, reused>>
  BY DEF Q!Persist, Q!IsAt
<1>2. call[c] \in CallRow /\ call[c] # Q!Idle /\ c \in Q!Busy
  BY <1>1, CallFields, EditorIs DEF EditorTypes, Active
<1>3. CASE /\ call[c].id # 0 /\ quote' = quote
           /\ \E s \in {"persisted", "refused"} : call' = [call EXCEPT ![c] = [call[c] EXCEPT !.at = s]]
  <2>1. PICK s \in {"persisted", "refused"} : call' = [call EXCEPT ![c] = [call[c] EXCEPT !.at = s]]
    BY <1>3
  <2>2. PICK x : x = [call[c] EXCEPT !.at = s]
    OBVIOUS
  <2>3. /\ x \in CallRow /\ x.at = s /\ x.form = call[c].form /\ x.id = call[c].id
        /\ (x.mine <=> call[c].mine) /\ (x.sending <=> call[c].sending)
    BY <1>2, <2>2 DEF CallRow, CallPlace
  <2>4. text' \in Nat
    BY <1>1 DEF EditorTypes
  <2> QED BY <1>1, <1>2, <1>3, <2>1, <2>2, <2>3, <2>4, EditorGoesOn
<1>4. PICK f \in Form, n \in Nat : f = call[c].form /\ n = Len(quote) + 1
  BY <1>2 DEF CallRow, EditorTypes
<1>5. CASE /\ call[c].id = 0
           /\ quote' = Append(quote, [form |-> f, status |-> "draft", inline |-> FALSE])
           /\ call' = [call EXCEPT ![c] = [call[c] EXCEPT !.at = "created", !.id = n]]
  <2>1. PICK v : v = [form |-> f, status |-> "draft", inline |-> FALSE]
    OBVIOUS
  <2>2. v \in QuoteRow /\ v.form = f /\ v.status = "draft" /\ ~v.inline
    BY <2>1 DEF QuoteRow
  <2>3. /\ quote' \in Seq(QuoteRow) /\ Len(quote') = n /\ DOMAIN quote' = DOMAIN quote \cup {n}
        /\ quote'[n] = v /\ n \notin DOMAIN quote /\ \A q \in DOMAIN quote : quote'[q] = quote[q]
    BY <1>4, <1>5, <2>1, <2>2 DEF EditorTypes
  <2>4. PICK x : x = [call[c] EXCEPT !.at = "created", !.id = n]
    OBVIOUS
  <2>5. /\ x \in CallRow /\ x.at = "created" /\ x.form = f /\ x.id = n
        /\ (x.mine <=> call[c].mine) /\ (x.sending <=> call[c].sending)
    BY <1>2, <1>4, <2>4 DEF CallRow, CallPlace
  <2>6. /\ call' \in [Run -> {Q!Idle} \cup CallRow] /\ call'[c] = x /\ x # Q!Idle
        /\ \A d \in Run : d # c => call'[d] = call[d]
    <3>1. x # Q!Idle
      BY <2>5 DEF Q!Idle
    <3> QED BY <1>5, <2>4, <2>5, <3>1, CallGoes DEF EditorTypes
  <2>7. 0..Len(quote) \subseteq 0..Len(quote') /\ n \in 0..Len(quote') /\ n # 0
    BY <1>4, <2>3 DEF EditorTypes
  <2>8. EditorTypes'
    BY <1>1, <2>3, <2>5, <2>6, <2>7 DEF EditorTypes
  <2>9. /\ Q!Busy = {d \in Run : Active(d)} /\ Q!Mine = {d \in Run : Active(d) /\ call[d].mine}
        /\ Q!Busy' = {d \in Run : Active(d)'} /\ Q!Mine' = {d \in Run : Active(d)' /\ call'[d].mine}
        /\ \A g : Q!Shows(g)' <=> Q!Shows(g)
    BY <1>1, <2>8, EditorIs, EditorIsNext DEF On
  <2>10. Q!Busy' = Q!Busy /\ Q!Mine' = Q!Mine /\ Q!Mine \subseteq Q!Busy /\ Q!Busy \subseteq Run
    BY <1>2, <2>5, <2>6, <2>9 DEF Active
  <2>11. \A d \in Q!Busy : /\ call'[d].form = call[d].form
                           /\ (call'[d].mine <=> call[d].mine) /\ (call'[d].sending <=> call[d].sending)
                           /\ d # c => call'[d] = call[d]
    BY <1>4, <2>5, <2>6, <2>10
  <2>12. \A g : g # f => Q!Made(g)' = Q!Made(g)
    BY <2>2, <2>3 DEF Q!Made
  <2>13. Q!Made(f)' = Q!Made(f) \cup {n}
    BY <2>2, <2>3 DEF Q!Made
  <2>14. Q!Made(f) = {} \/ f \in reused
    BY <1>1, <1>2, <1>4, <1>5 DEF Q!Unmade, Q!IsAt
  <2>15. \A i \in 0..Len(quote) : i # 0 => quote'[i] = quote[i]
    BY <2>3 DEF EditorTypes
  <2>16. Q!Linked'
    <3>1. \A q \in DOMAIN quote' : quote'[q].inline => quote'[q].status = "sent"
      BY <2>2, <2>3 DEF Q!Linked
    <3>2. page # Q!Away => /\ page.id # 0 => quote'[page.id].form = page.form
                           /\ page.at = "detail" => page.id # 0
      BY <2>15 DEF Q!Linked, EditorTypes
    <3>3. ASSUME NEW d \in Q!Busy
          PROVE  /\ call'[d].id # 0 => quote'[call'[d].id].form = call'[d].form
                 /\ call'[d].at \notin {"persist", "refused"} => call'[d].id # 0
                 /\ call'[d].at \in {"transition", "sent", "pushing"} => call'[d].sending
      <4>1. CASE d = c
        BY <2>2, <2>3, <2>5, <2>6, <2>7, <4>1
      <4>2. CASE d # c
        <5>1. call'[d] = call[d] /\ call[d].id \in 0..Len(quote)
          BY <2>9, <2>11, <3>3, <4>2 DEF EditorTypes, Active
        <5> QED BY <2>15, <3>3, <5>1 DEF Q!Linked
      <4> QED BY <4>1, <4>2
    <3> QED BY <1>1, <2>10, <3>1, <3>2, <3>3 DEF Q!Linked
  <2>17. Q!Owned'
    BY <1>1, <2>9, <2>10, <2>11 DEF Q!Owned
  <2>18. Q!Unmade'
    <3>1. ASSUME NEW d \in Q!Busy, call'[d].at = "persist", call'[d].id = 0,
                 NEW g, g = call'[d].form
          PROVE  Q!Made(g)' = {} \/ g \in reused
      <4>1. d # c /\ call'[d] = call[d]
        BY <2>5, <2>6, <2>11, <3>1
      <4>2. CASE g = f
        BY <1>2, <1>4, <3>1, <4>1, <4>2 DEF Q!Owned
      <4>3. CASE g # f
        <5>1. Q!Made(g) = {} \/ g \in reused
          BY <3>1, <4>1 DEF Q!Unmade, Q!IsAt
        <5> QED BY <2>12, <4>3, <5>1
      <4> QED BY <4>2, <4>3
    <3>2. ASSUME NEW g, g = page.form, NEW q \in Q!Made(g)', page # Q!Away, page.id = 0, g \notin reused
          PROVE  \E d \in Q!Mine : call'[d].at = "created" /\ call'[d].id = q
      <4>1. CASE q \in Q!Made(g)
        <5>1. PICK d \in Q!Mine : call[d].at = "created" /\ call[d].id = q
          BY <3>2, <4>1 DEF Q!Unmade, Q!IsAt
        <5>2. call'[d] = call[d]
          BY <1>1, <2>10, <2>11, <5>1
        <5> QED BY <5>1, <5>2
      <4>2. CASE q \notin Q!Made(g)
        <5>1. g = f /\ q = n
          BY <2>12, <2>13, <3>2, <4>2
        <5>2. c \in Q!Mine
          BY <1>2, <1>4, <2>9, <3>2, <5>1 DEF Q!Owned, Q!Shows
        <5> QED BY <2>5, <2>6, <5>1, <5>2
      <4> QED BY <4>1, <4>2
    <3>3. \A d \in Q!Busy' : call'[d].at = "persist" /\ call'[d].id = 0 =>
             Q!Made(call[d].form)' = {} \/ call'[d].form \in reused
      BY <2>10, <3>1
    <3> QED BY <1>1, <2>10, <3>2, <3>3 DEF Q!Unmade, Q!IsAt
  <2>19. Q!Over'
    <3>1. ASSUME NEW q \in DOMAIN quote', quote'[q].inline, quote'[q].form \notin reused
          PROVE  /\ Q!Shows(quote'[q].form) /\ page.editable => page.muted
                 /\ \A d \in Q!Busy : call'[d].form = quote'[q].form => call'[d].at \in {"sent", "pushing"}
      <4>1. q \in DOMAIN quote /\ quote'[q] = quote[q]
        BY <2>2, <2>3, <3>1
      <4>2. quote[q].form # f
        BY <2>14, <3>1, <4>1 DEF Q!Made
      <4> QED BY <1>4, <2>11, <3>1, <4>1, <4>2 DEF Q!Over
    <3> QED BY <1>1, <2>9, <2>10, <3>1 DEF Q!Over
  <2>20. Q!OneQuoteOfAForm'
    <3>1. ASSUME NEW p \in DOMAIN quote', NEW q \in DOMAIN quote', quote'[p].form = quote'[q].form, p # q
          PROVE  quote'[p].form \in reused
      <4>1. CASE quote'[p].form = f
        <5>1. (p \in DOMAIN quote /\ quote[p].form = f) \/ (q \in DOMAIN quote /\ quote[q].form = f)
          BY <2>3, <3>1, <4>1
        <5> QED BY <2>14, <4>1, <5>1 DEF Q!Made
      <4>2. CASE quote'[p].form # f
        <5>1. p \in DOMAIN quote /\ q \in DOMAIN quote /\ quote'[p] = quote[p] /\ quote'[q] = quote[q]
          BY <2>2, <2>3, <3>1, <4>2
        <5> QED BY <3>1, <5>1 DEF Q!OneQuoteOfAForm
      <4> QED BY <4>1, <4>2
    <3>2. ASSUME NEW q \in DOMAIN quote', quote'[q].inline, text = quote'[q].form, quote'[q].form \notin reused
          PROVE  \E d \in Run : call'[d].at = "sent" /\ call'[d].id = q
      <4>1. q \in DOMAIN quote /\ quote'[q] = quote[q]
        BY <2>2, <2>3, <3>2
      <4>2. PICK d \in Run : call[d].at = "sent" /\ call[d].id = q
        BY <3>2, <4>1 DEF Q!OneQuoteOfAForm, Q!IsAt
      <4> QED BY <1>1, <2>6, <4>2
    <3> QED BY <1>1, <3>1, <3>2 DEF Q!OneQuoteOfAForm, Q!IsAt
  <2> QED BY <2>8, <2>16, <2>17, <2>18, <2>19, <2>20
<1>6. \/ /\ call[c].id = 0
         /\ quote' = Append(quote, [form |-> f, status |-> "draft", inline |-> FALSE])
         /\ call' = [call EXCEPT ![c] = [call[c] EXCEPT !.at = "created", !.id = n]]
      \/ /\ call[c].id # 0 /\ quote' = quote
         /\ \E s \in {"persisted", "refused"} : call' = [call EXCEPT ![c] = [call[c] EXCEPT !.at = s]]
  BY <1>4, QuoteSeq DEF Q!Persist
<1> QED BY <1>3, <1>5, <1>6

\* The answer to a save: the page has its quote, unless it has left the form.
LEMMA EditorPersisted ==
    ASSUME Q!EditorInv, NEW c \in Run, Q!Persisted(c)
    PROVE  Q!EditorInv'
<1> USE EditorParts
<1>1. call[c].at \in {"created", "persisted"} /\ UNCHANGED <<quote, forms, reused>>
  BY DEF Q!Persisted, Q!IsAt
<1>2. call[c] \in CallRow /\ call[c] # Q!Idle /\ c \in Q!Busy
  BY <1>1, CallFields, EditorIs DEF EditorTypes, Active
<1>3. PICK f \in Form, n \in Nat : f = call[c].form /\ n = call[c].id
  BY <1>2 DEF CallRow
<1>4. n # 0 /\ n \in 0..Len(quote) /\ quote[n].form = f
  BY <1>1, <1>2, <1>3 DEF Q!Linked, EditorTypes
<1>5. PICK x : x = IF call[c].sending THEN [call[c] EXCEPT !.at = "transition"] ELSE Q!Idle
  OBVIOUS
<1>6. /\ call[c].sending => /\ x \in CallRow /\ x # Q!Idle /\ x.at = "transition" /\ x.form = f /\ x.id = n
                            /\ (x.mine <=> call[c].mine) /\ x.sending
      /\ ~call[c].sending => x = Q!Idle
  BY <1>2, <1>3, <1>5 DEF CallRow, CallPlace, Q!Idle
<1>7. /\ call' \in [Run -> {Q!Idle} \cup CallRow] /\ call'[c] = x
      /\ \A d \in Run : d # c => call'[d] = call[d]
  <2>1. call' = [call EXCEPT ![c] = x]
    BY <1>5 DEF Q!Persisted
  <2> QED BY <1>6, <2>1, CallGoes DEF EditorTypes
<1>8. PICK y : y = page'
  OBVIOUS
<1>9. /\ call[c].mine => /\ page # Q!Away /\ y # Q!Away /\ y \in PageRow /\ y.at = page.at /\ y.form = page.form
                         /\ y.id = n /\ (y.muted <=> page.muted) /\ (y.editable <=> page.editable)
                         /\ page.form = f
      /\ ~call[c].mine => y = page
  <2>1. CASE call[c].mine
    <3>1. page # Q!Away /\ page.form = f
      BY <1>2, <1>3, <2>1, EditorIs DEF Q!Owned, Q!Shows, Active
    <3>2. page \in PageRow
      BY <3>1 DEF EditorTypes
    <3>3. y = [page EXCEPT !.id = n]
      BY <1>3, <1>8, <2>1 DEF Q!Persisted
    <3>4. /\ y \in PageRow /\ y.at = page.at /\ y.form = page.form
          /\ y.id = n /\ (y.muted <=> page.muted) /\ (y.editable <=> page.editable)
      BY <3>2, <3>3 DEF PageRow
    <3>5. y.at # "away"
      BY <3>4 DEF PageRow
    <3> QED BY <2>1, <3>1, <3>4, <3>5 DEF Q!Away
  <2>2. CASE ~call[c].mine
    BY <1>8, <2>2 DEF Q!Persisted
  <2> QED BY <2>1, <2>2
<1>10. text' = IF call[c].sending THEN text ELSE f
  BY <1>3 DEF Q!Persisted
<1>11. EditorTypes'
  <2>1. text' \in Nat
    BY <1>3, <1>10 DEF EditorTypes, Form
  <2>2. page' \in {Q!Away} \cup PageRow /\ (page' # Q!Away => page'.id \in 0..Len(quote))
    BY <1>4, <1>8, <1>9 DEF EditorTypes
  <2>3. \A d \in Run : call'[d] # Q!Idle => call'[d].id \in 0..Len(quote)
    BY <1>4, <1>6, <1>7 DEF EditorTypes
  <2> QED BY <1>1, <1>7, <2>1, <2>2, <2>3 DEF EditorTypes
<1>12. /\ Q!Busy = {d \in Run : Active(d)} /\ Q!Mine = {d \in Run : Active(d) /\ call[d].mine}
       /\ Q!Busy' = {d \in Run : Active(d)'} /\ Q!Mine' = {d \in Run : Active(d)' /\ call'[d].mine}
       /\ \A g : Q!Shows(g) <=> On(g)
       /\ \A g : Q!Shows(g)' <=> y # Q!Away /\ y.form = g
  BY <1>8, <1>11, EditorIs, EditorIsNext
<1>13. \A g : Q!Shows(g)' <=> Q!Shows(g)
  BY <1>9, <1>12 DEF On
<1>14. /\ Q!Busy' \subseteq Q!Busy /\ Q!Mine' \subseteq Q!Mine /\ Q!Mine \subseteq Q!Busy /\ Q!Busy \subseteq Run
       /\ \A d \in Q!Mine : d # c \/ call[c].sending => d \in Q!Mine'
  <2>1. ASSUME NEW d \in Run, call'[d] # Q!Idle
        PROVE  call[d] # Q!Idle /\ (call'[d].mine <=> call[d].mine)
    BY <1>2, <1>6, <1>7, <2>1
  <2>2. ASSUME NEW d \in Run, call[d] # Q!Idle, d # c \/ call[c].sending
        PROVE  call'[d] # Q!Idle /\ (call'[d].mine <=> call[d].mine)
    BY <1>2, <1>6, <1>7, <2>2
  <2>3. Q!Mine \subseteq Q!Busy /\ Q!Busy \subseteq Run
    BY <1>12
  <2>4. Q!Busy' \subseteq Q!Busy /\ Q!Mine' \subseteq Q!Mine
    BY <1>12, <2>1 DEF Active
  <2>5. \A d \in Q!Mine : d # c \/ call[c].sending => d \in Q!Mine'
    BY <1>12, <2>2 DEF Active
  <2> QED BY <2>3, <2>4, <2>5
<1>15. \A d \in Q!Busy' : /\ call'[d].form = call[d].form /\ call'[d].id = call[d].id
                          /\ (call'[d].mine <=> call[d].mine) /\ (call'[d].sending <=> call[d].sending)
                          /\ d # c => call'[d] = call[d]
                          /\ d = c => call'[d].at = "transition" /\ call'[d].sending
  BY <1>2, <1>3, <1>6, <1>7, <1>12 DEF Active
<1>16. \A g : Q!Made(g)' = Q!Made(g)
  BY <1>1 DEF Q!Made
<1>17. Q!Linked'
  <2>1. y # Q!Away => /\ y.id # 0 => quote[y.id].form = y.form
                      /\ y.at = "detail" => y.id # 0
    BY <1>4, <1>9 DEF Q!Linked
  <2>2. ASSUME NEW d \in Q!Busy'
        PROVE  /\ call'[d].id # 0 => quote[call'[d].id].form = call'[d].form
               /\ call'[d].at \notin {"persist", "refused"} => call'[d].id # 0
               /\ call'[d].at \in {"transition", "sent", "pushing"} => call'[d].sending
    <3>1. CASE d = c
      BY <1>3, <1>4, <1>15, <2>2, <3>1
    <3>2. CASE d # c
      BY <1>14, <1>15, <2>2, <3>2 DEF Q!Linked
    <3> QED BY <3>1, <3>2
  <2>3. \A q \in DOMAIN quote : quote[q].inline => quote[q].status = "sent"
    BY DEF Q!Linked
  <2> QED BY <1>1, <1>8, <2>1, <2>2, <2>3 DEF Q!Linked
<1>18. Q!Owned'
  <2>1. y # Q!Away /\ y.muted => \E d \in Q!Mine' : call'[d].sending
    <3>1. ASSUME y # Q!Away, y.muted PROVE \E d \in Q!Mine' : call'[d].sending
      <4>1. page # Q!Away /\ page.muted
        BY <1>9, <3>1
      <4>2. PICK d \in Q!Mine : call[d].sending
        BY <4>1 DEF Q!Owned
      <4>3. d \in Q!Mine'
        BY <1>14, <4>2
      <4>4. d \in Q!Busy'
        BY <1>12, <4>3
      <4> QED BY <1>15, <4>2, <4>3, <4>4
    <3> QED BY <3>1
  <2>2. \A d, e \in Q!Mine' : d = e
    BY <1>14 DEF Q!Owned
  <2>3. \A d \in Q!Mine' : Q!Shows(call[d].form)' /\ (call'[d].sending => y.muted)
    <3>1. ASSUME NEW d \in Q!Mine', NEW g, g = call'[d].form
          PROVE  Q!Shows(g)' /\ (call'[d].sending => y.muted)
      <4>1. d \in Q!Busy' /\ d \in Q!Mine
        BY <1>12, <1>14, <3>1
      <4>2. Q!Shows(g) /\ (call[d].sending => page.muted)
        BY <1>15, <3>1, <4>1 DEF Q!Owned
      <4> QED BY <1>9, <1>13, <1>15, <4>1, <4>2
    <3> QED BY <1>12, <3>1
  <2>4. \A d, e \in Q!Busy' : call'[d].form = call'[e].form => d = e \/ call'[d].form \in reused
    BY <1>14, <1>15 DEF Q!Owned
  <2>5. ASSUME NEW d \in Q!Busy', NEW g, g = call'[d].form, Q!Shows(g)'
        PROVE  call'[d].mine \/ g \in reused
    BY <1>13, <1>14, <1>15, <2>5 DEF Q!Owned
  <2>6. \A d \in Q!Busy' : Q!Shows(call[d].form)' => call'[d].mine \/ call'[d].form \in reused
    BY <2>5
  <2> QED BY <1>1, <1>8, <2>1, <2>2, <2>3, <2>4, <2>6 DEF Q!Owned
<1>19. Q!Unmade'
  <2>1. ASSUME NEW d \in Q!Busy', call'[d].at = "persist", call'[d].id = 0, NEW g, g = call'[d].form
        PROVE  Q!Made(g) = {} \/ g \in reused
    <3>1. d \in Q!Busy /\ call'[d] = call[d]
      BY <1>14, <1>15, <2>1
    <3> QED BY <2>1, <3>1 DEF Q!Unmade, Q!IsAt
  <2>2. ASSUME y # Q!Away, y.id = 0, NEW q \in Q!Made(y.form), y.form \notin reused
        PROVE  \E d \in Q!Mine' : call'[d].at = "created" /\ call'[d].id = q
    <3>1. ~call[c].mine /\ y = page
      BY <1>4, <1>9, <2>2
    <3>2. PICK d \in Q!Mine : call[d].at = "created" /\ call[d].id = q
      BY <2>2, <3>1 DEF Q!Unmade, Q!IsAt
    <3>3. d # c /\ d \in Q!Mine' /\ d \in Run
      BY <1>12, <1>14, <3>1, <3>2
    <3> QED BY <1>7, <3>2, <3>3
  <2>3. \A d \in Q!Busy' : call'[d].at = "persist" /\ call'[d].id = 0 =>
           Q!Made(call'[d].form) = {} \/ call'[d].form \in reused
    BY <2>1
  <2> QED BY <1>1, <1>8, <1>16, <2>2, <2>3 DEF Q!Unmade, Q!IsAt
<1>20. \A q \in DOMAIN quote : quote[q].inline /\ quote[q].form = f => f \in reused
  BY <1>1, <1>2, <1>3 DEF Q!Over
<1>21. Q!Over'
  <2>1. ASSUME NEW q \in DOMAIN quote, quote[q].inline, quote[q].form \notin reused
        PROVE  /\ Q!Shows(quote[q].form) /\ y.editable => y.muted
               /\ \A d \in Q!Busy' : call'[d].form = quote[q].form => call'[d].at \in {"sent", "pushing"}
    <3>1. quote[q].form # f
      BY <1>20, <2>1
    <3>2. Q!Shows(quote[q].form) /\ y.editable => y.muted
      BY <1>9, <2>1 DEF Q!Over
    <3>3. ASSUME NEW d \in Q!Busy', call'[d].form = quote[q].form PROVE call'[d].at \in {"sent", "pushing"}
      <4>1. d # c
        BY <1>3, <1>15, <3>1, <3>3
      <4>2. d \in Q!Busy /\ call'[d] = call[d]
        BY <1>14, <1>15, <3>3, <4>1
      <4> QED BY <2>1, <3>3, <4>2 DEF Q!Over
    <3> QED BY <3>2, <3>3
  <2> QED BY <1>1, <1>8, <1>13, <2>1 DEF Q!Over
<1>22. Q!OneQuoteOfAForm'
  <2>1. ASSUME NEW q \in DOMAIN quote, quote[q].inline, text' = quote[q].form, quote[q].form \notin reused
        PROVE  \E d \in Run : call'[d].at = "sent" /\ call'[d].id = q
    <3>1. text = quote[q].form
      BY <1>10, <1>20, <2>1
    <3>2. \E d \in Run : Q!IsAt(d, "sent") /\ call[d].id = q
      BY <2>1, <3>1 DEF Q!OneQuoteOfAForm
    <3>3. PICK d \in Run : call[d].at = "sent" /\ call[d].id = q
      BY <3>2 DEF Q!IsAt
    <3>4. d # c
      BY <1>1, <3>3
    <3> QED BY <1>7, <3>3, <3>4
  <2>2. \A p, q \in DOMAIN quote : quote[p].form = quote[q].form => p = q \/ quote[p].form \in reused
    BY DEF Q!OneQuoteOfAForm
  <2> QED BY <1>1, <2>1, <2>2 DEF Q!OneQuoteOfAForm, Q!IsAt
<1> QED BY <1>11, <1>17, <1>18, <1>19, <1>21, <1>22

\* The server sends the quote, or refuses what is a draft no longer.
LEMMA EditorTransition ==
    ASSUME Q!EditorInv, NEW c \in Run, Q!Transition(c)
    PROVE  Q!EditorInv'
<1> USE EditorParts
<1>1. call[c].at = "transition" /\ UNCHANGED <<text, forms, page, reused>>
  BY DEF Q!Transition, Q!IsAt
<1>2. call[c] \in CallRow /\ call[c] # Q!Idle /\ c \in Q!Busy
  BY <1>1, CallFields, EditorIs DEF EditorTypes, Active
<1>3. PICK f \in Form, n \in Nat : f = call[c].form /\ n = call[c].id
  BY <1>2 DEF CallRow
<1>4. n # 0 /\ n \in DOMAIN quote /\ quote[n].form = f /\ call[c].sending
  BY <1>1, <1>2, <1>3 DEF Q!Linked, EditorTypes
<1>5. PICK s \in {"sent", "refused"} :
        /\ call' = [call EXCEPT ![c] = [call[c] EXCEPT !.at = s]]
        /\ s = "refused" => quote' = quote
        /\ s = "sent" => quote' = [quote EXCEPT ![n] = [quote[n] EXCEPT !.status = "sent", !.inline = TRUE]]
  BY <1>3 DEF Q!Transition
<1>6. PICK x : x = [call[c] EXCEPT !.at = s]
  OBVIOUS
<1>7. /\ x \in CallRow /\ x.at = s /\ x.form = f /\ x.id = n
      /\ (x.mine <=> call[c].mine) /\ x.sending
  BY <1>2, <1>3, <1>4, <1>6 DEF CallRow, CallPlace
<1>8. CASE s = "refused"
  <2>1. text' \in Nat
    BY <1>1 DEF EditorTypes
  <2> QED BY <1>1, <1>2, <1>3, <1>4, <1>5, <1>6, <1>7, <1>8, <2>1, EditorGoesOn
<1>9. CASE s = "sent"
  <2>1. PICK v : v = [quote[n] EXCEPT !.status = "sent", !.inline = TRUE]
    OBVIOUS
  <2>2. v \in QuoteRow /\ v.form = f /\ v.status = "sent" /\ v.inline
    BY <1>4, <2>1, QuoteRows DEF QuoteRow, EditorTypes
  <2>3. /\ quote' \in Seq(QuoteRow) /\ Len(quote') = Len(quote) /\ DOMAIN quote' = DOMAIN quote
        /\ quote'[n] = v /\ \A q \in DOMAIN quote : q # n => quote'[q] = quote[q]
    BY <1>4, <1>5, <1>9, <2>1, <2>2, QuoteGoes DEF EditorTypes
  <2>4. x # Q!Idle
    BY <1>7 DEF CallRow, CallPlace, Q!Idle
  <2>5. /\ call' \in [Run -> {Q!Idle} \cup CallRow] /\ call'[c] = x
        /\ \A d \in Run : d # c => call'[d] = call[d]
    BY <1>5, <1>6, <1>7, CallGoes DEF EditorTypes
  <2>6. EditorTypes'
    <3>1. /\ text' \in Nat /\ forms' = forms /\ page' = page /\ reused' = reused
          /\ 0..Len(quote') = 0..Len(quote)
      BY <1>1, <2>3 DEF EditorTypes
    <3>2. \A d \in Run : call'[d] # Q!Idle => call'[d].id \in 0..Len(quote')
      BY <1>3, <1>4, <1>7, <2>3, <2>5, <3>1 DEF EditorTypes
    <3> QED BY <1>7, <2>3, <2>5, <3>1, <3>2 DEF EditorTypes
  <2>7. /\ Q!Busy = {d \in Run : Active(d)} /\ Q!Mine = {d \in Run : Active(d) /\ call[d].mine}
        /\ Q!Busy' = {d \in Run : Active(d)'} /\ Q!Mine' = {d \in Run : Active(d)' /\ call'[d].mine}
        /\ \A g : Q!Shows(g)' <=> Q!Shows(g)
    BY <1>1, <2>6, EditorIs, EditorIsNext DEF On
  <2>8. Q!Busy' = Q!Busy /\ Q!Mine' = Q!Mine /\ Q!Mine \subseteq Q!Busy /\ Q!Busy \subseteq Run
    BY <1>2, <1>7, <2>4, <2>5, <2>7 DEF Active
  <2>9. \A d \in Q!Busy : /\ call'[d].form = call[d].form /\ call'[d].id = call[d].id
                          /\ (call'[d].mine <=> call[d].mine) /\ (call'[d].sending <=> call[d].sending)
                          /\ d # c => call'[d] = call[d]
    BY <1>3, <1>4, <1>7, <2>5, <2>8
  <2>10. \A q \in DOMAIN quote : quote'[q].form = quote[q].form
    BY <1>4, <2>2, <2>3
  <2>11. \A g : Q!Made(g)' = Q!Made(g)
    BY <2>3, <2>10 DEF Q!Made
  <2>12. Q!Linked'
    <3>1. \A q \in DOMAIN quote' : quote'[q].inline => quote'[q].status = "sent"
      BY <2>2, <2>3 DEF Q!Linked
    <3>2. \A q \in 0..Len(quote) : q # 0 => quote'[q].form = quote[q].form
      BY <2>10 DEF EditorTypes
    <3>3. page # Q!Away => /\ page.id # 0 => quote'[page.id].form = page.form
                           /\ page.at = "detail" => page.id # 0
      BY <3>2 DEF Q!Linked, EditorTypes
    <3>4. ASSUME NEW d \in Q!Busy
          PROVE  /\ call'[d].id # 0 => quote'[call'[d].id].form = call'[d].form
                 /\ call'[d].at \notin {"persist", "refused"} => call'[d].id # 0
                 /\ call'[d].at \in {"transition", "sent", "pushing"} => call'[d].sending
      <4>1. call[d].id \in 0..Len(quote)
        BY <2>7, <3>4 DEF EditorTypes, Active
      <4>2. CASE d = c
        BY <1>4, <1>7, <2>5, <2>10, <4>2
      <4>3. CASE d # c
        BY <2>9, <3>2, <3>4, <4>1, <4>3 DEF Q!Linked
      <4> QED BY <4>2, <4>3
    <3> QED BY <1>1, <2>8, <3>1, <3>3, <3>4 DEF Q!Linked
  <2>13. Q!Owned'
    BY <1>1, <2>7, <2>8, <2>9 DEF Q!Owned
  <2>14. Q!Unmade'
    <3>1. ASSUME NEW d \in Q!Busy, call'[d].at = "persist", call'[d].id = 0
          PROVE  Q!Made(call'[d].form) = {} \/ call'[d].form \in reused
      <4>1. d # c /\ call'[d] = call[d]
        BY <1>7, <1>9, <2>5, <2>9, <3>1
      <4> QED BY <3>1, <4>1 DEF Q!Unmade, Q!IsAt
    <3>2. ASSUME NEW q \in Q!Made(page.form), page # Q!Away, page.id = 0, page.form \notin reused
          PROVE  \E d \in Q!Mine : call'[d].at = "created" /\ call'[d].id = q
      <4>1. PICK d \in Q!Mine : call[d].at = "created" /\ call[d].id = q
        BY <3>2 DEF Q!Unmade, Q!IsAt
      <4> QED BY <1>1, <2>8, <2>9, <4>1
    <3> QED BY <1>1, <2>8, <2>11, <3>1, <3>2 DEF Q!Unmade, Q!IsAt
  <2>15. Q!Over'
    <3>1. ASSUME NEW q \in DOMAIN quote, quote'[q].inline, quote[q].form \notin reused
          PROVE  /\ Q!Shows(quote[q].form) /\ page.editable => page.muted
                 /\ \A d \in Q!Busy : call'[d].form = quote[q].form => call'[d].at \in {"sent", "pushing"}
      <4>1. CASE q = n
        <5>1. Q!Shows(f) => page.muted
          BY <1>2, <1>3, <1>4, <2>7, <3>1, <4>1 DEF Q!Owned
        <5>2. \A d \in Q!Busy : call'[d].form = f => d = c
          BY <1>2, <1>3, <1>4, <2>9, <3>1, <4>1 DEF Q!Owned
        <5> QED BY <1>4, <1>7, <1>9, <2>5, <4>1, <5>1, <5>2
      <4>2. CASE q # n
        <5>1. quote[q].inline
          BY <2>3, <3>1, <4>2
        <5>2. \A d \in Q!Busy : call'[d].form = quote[q].form => d # c /\ call[d].at \in {"sent", "pushing"}
          BY <1>1, <2>9, <3>1, <5>1 DEF Q!Over
        <5> QED BY <2>9, <3>1, <5>1, <5>2 DEF Q!Over
      <4> QED BY <4>1, <4>2
    <3>2. \A q \in DOMAIN quote' : quote'[q].inline /\ quote'[q].form \notin reused =>
             /\ Q!Shows(quote'[q].form) /\ page.editable => page.muted
             /\ \A d \in Q!Busy' : call'[d].form = quote'[q].form => call'[d].at \in {"sent", "pushing"}
      BY <2>3, <2>8, <2>10, <3>1
    <3>3. \A g : Q!Shows(g) => Q!Shows(g)'
      BY <2>7
    <3>4. \A q \in DOMAIN quote' : Q!Shows(quote[q].form)' => Q!Shows(quote'[q].form)
      BY <2>7
    <3> QED BY <1>1, <3>2, <3>4 DEF Q!Over
  <2>16. Q!OneQuoteOfAForm'
    <3>1. \A p, q \in DOMAIN quote : quote'[p].form = quote'[q].form => p = q \/ quote'[p].form \in reused
      BY <2>10 DEF Q!OneQuoteOfAForm
    <3>2. ASSUME NEW q \in DOMAIN quote, quote'[q].inline, text = quote[q].form, quote[q].form \notin reused
          PROVE  \E d \in Run : call'[d].at = "sent" /\ call'[d].id = q
      <4>1. CASE q = n
        BY <1>7, <1>9, <2>5, <4>1
      <4>2. CASE q # n
        <5>1. quote[q].inline
          BY <2>3, <3>2, <4>2
        <5>2. \E d \in Run : Q!IsAt(d, "sent") /\ call[d].id = q
          BY <3>2, <5>1 DEF Q!OneQuoteOfAForm
        <5>3. PICK d \in Run : call[d].at = "sent" /\ call[d].id = q
          BY <5>2 DEF Q!IsAt
        <5>4. d # c
          BY <1>1, <5>3
        <5> QED BY <2>5, <5>3, <5>4
      <4> QED BY <4>1, <4>2
    <3> QED BY <1>1, <2>3, <2>10, <3>1, <3>2 DEF Q!OneQuoteOfAForm, Q!IsAt
  <2> QED BY <2>6, <2>12, <2>13, <2>14, <2>15, <2>16
<1> QED BY <1>8, <1>9

\* A call that fails lets the page go; what nobody heard of makes the form a used one.
LEMMA EditorFail ==
    ASSUME Q!EditorInv, NEW c \in Run, Q!Fail(c)
    PROVE  Q!EditorInv'
<1> USE EditorParts
<1>1. /\ call[c].at \notin {"idle", "pushing"} /\ UNCHANGED <<quote, text, forms>>
      /\ call' = [call EXCEPT ![c] = Q!Idle]
      /\ reused' = IF call[c].at \in {"created", "sent"} THEN reused \cup {call[c].form} ELSE reused
  BY DEF Q!Fail, Q!IsAt, Q!Unheard
<1>2. call[c] \in CallRow /\ call[c] # Q!Idle /\ c \in Q!Busy
  BY <1>1, CallFields, EditorIs DEF EditorTypes, Active, Q!Idle
<1>3. /\ call' \in [Run -> {Q!Idle} \cup CallRow] /\ call'[c] = Q!Idle
      /\ \A d \in Run : d # c => call'[d] = call[d]
  BY <1>1, CallGoes DEF EditorTypes
<1>4. reused \subseteq reused'
  BY <1>1
<1>5. PICK y : y = page'
  OBVIOUS
<1>6. /\ call[c].mine => /\ page # Q!Away /\ y # Q!Away /\ y \in PageRow /\ y.at = page.at /\ y.form = page.form
                         /\ y.id = page.id /\ ~y.muted /\ (y.editable <=> page.editable)
                         /\ page.form = call[c].form
      /\ ~call[c].mine => y = page
  <2>1. CASE call[c].mine
    <3>1. page # Q!Away /\ page.form = call[c].form
      BY <1>2, <2>1, EditorIs DEF Q!Owned, Q!Shows, Active
    <3>2. page \in PageRow
      BY <3>1 DEF EditorTypes
    <3>3. y = [page EXCEPT !.muted = FALSE]
      BY <1>5, <2>1 DEF Q!Fail
    <3>4. /\ y \in PageRow /\ y.at = page.at /\ y.form = page.form
          /\ y.id = page.id /\ ~y.muted /\ (y.editable <=> page.editable)
      BY <3>2, <3>3 DEF PageRow
    <3>5. y.at # "away"
      BY <3>4 DEF PageRow
    <3> QED BY <2>1, <3>1, <3>4, <3>5 DEF Q!Away
  <2>2. CASE ~call[c].mine
    BY <1>5, <2>2 DEF Q!Fail
  <2> QED BY <2>1, <2>2
<1>7. EditorTypes'
  <2>1. page' \in {Q!Away} \cup PageRow /\ (page' # Q!Away => page'.id \in 0..Len(quote))
    BY <1>5, <1>6 DEF EditorTypes
  <2>2. \A d \in Run : call'[d] # Q!Idle => call'[d].id \in 0..Len(quote)
    BY <1>3 DEF EditorTypes
  <2> QED BY <1>1, <1>3, <2>1, <2>2 DEF EditorTypes
<1>8. /\ Q!Busy = {d \in Run : Active(d)} /\ Q!Mine = {d \in Run : Active(d) /\ call[d].mine}
      /\ Q!Busy' = {d \in Run : Active(d)'} /\ Q!Mine' = {d \in Run : Active(d)' /\ call'[d].mine}
      /\ \A g : Q!Shows(g) <=> On(g)
      /\ \A g : Q!Shows(g)' <=> y # Q!Away /\ y.form = g
  BY <1>5, <1>7, EditorIs, EditorIsNext
<1>9. \A g : Q!Shows(g)' <=> Q!Shows(g)
  BY <1>6, <1>8 DEF On
<1>10. /\ Q!Busy' = Q!Busy \ {c} /\ Q!Mine' = Q!Mine \ {c} /\ Q!Mine \subseteq Q!Busy /\ Q!Busy \subseteq Run
       /\ \A d \in Q!Busy' : call'[d] = call[d]
  BY <1>3, <1>8 DEF Active
<1>11. \A g : Q!Made(g)' = Q!Made(g)
  BY <1>1 DEF Q!Made
<1>12. Q!Linked'
  <2>1. y # Q!Away => /\ y.id # 0 => quote[y.id].form = y.form
                      /\ y.at = "detail" => y.id # 0
    BY <1>6 DEF Q!Linked
  <2> QED BY <1>1, <1>5, <1>10, <2>1 DEF Q!Linked
<1>13. Q!Owned'
  <2>1. \A d, e \in Q!Mine' : d = e
    BY <1>10 DEF Q!Owned
  <2>2. \A d \in Q!Mine' : Q!Shows(call[d].form)' /\ (call'[d].sending => y.muted)
    <3>1. ASSUME NEW d \in Q!Mine' PROVE Q!Shows(call[d].form) /\ (call[d].sending => y.muted)
      BY <1>2, <1>6, <1>8, <1>10, <3>1 DEF Q!Owned
    <3>2. \A d \in Q!Mine' : call'[d] = call[d]
      BY <1>10
    <3> QED BY <1>9, <3>1, <3>2
  <2>3. y # Q!Away /\ y.muted => \E d \in Q!Mine' : call'[d].sending
    <3>1. ASSUME y # Q!Away, y.muted PROVE \E d \in Q!Mine' : call'[d].sending
      <4>1. ~call[c].mine /\ page # Q!Away /\ page.muted
        BY <1>6, <3>1
      <4>2. PICK d \in Q!Mine : call[d].sending
        BY <4>1 DEF Q!Owned
      <4>3. d # c
        BY <1>8, <4>1, <4>2
      <4> QED BY <1>10, <4>2, <4>3
    <3> QED BY <3>1
  <2>4. \A d, e \in Q!Busy' : call'[d].form = call'[e].form => d = e \/ call'[d].form \in reused'
    BY <1>4, <1>10 DEF Q!Owned
  <2>5. \A d \in Q!Busy' : Q!Shows(call[d].form)' => call'[d].mine \/ call'[d].form \in reused'
    <3>1. \A d \in Q!Busy' : Q!Shows(call[d].form) => call[d].mine \/ call[d].form \in reused
      BY <1>10 DEF Q!Owned
    <3> QED BY <1>4, <1>9, <1>10, <3>1
  <2> QED BY <1>5, <2>1, <2>2, <2>3, <2>4, <2>5 DEF Q!Owned
<1>14. Q!Unmade'
  <2>1. \A d \in Q!Busy' : call'[d].at = "persist" /\ call'[d].id = 0 =>
           Q!Made(call'[d].form) = {} \/ call'[d].form \in reused'
    BY <1>4, <1>10 DEF Q!Unmade, Q!IsAt
  <2>2. ASSUME y # Q!Away, y.id = 0, NEW q \in Q!Made(y.form), y.form \notin reused'
        PROVE  \E d \in Q!Mine' : call'[d].at = "created" /\ call'[d].id = q
    <3>1. page # Q!Away /\ page.id = 0 /\ y.form = page.form
      BY <1>6, <2>2
    <3>2. PICK d \in Q!Mine : call[d].at = "created" /\ call[d].id = q
      BY <1>4, <2>2, <3>1 DEF Q!Unmade, Q!IsAt
    <3>3. d # c
      <4>1. Q!Shows(call[d].form)
        BY <3>2 DEF Q!Owned
      <4> QED BY <1>1, <1>8, <2>2, <3>1, <3>2, <4>1 DEF On
    <3> QED BY <1>10, <3>2, <3>3
  <2> QED BY <1>5, <1>11, <2>1, <2>2 DEF Q!Unmade, Q!IsAt
<1>15. Q!Over'
  <2>1. ASSUME NEW q \in DOMAIN quote, quote[q].inline, quote[q].form \notin reused'
        PROVE  /\ Q!Shows(quote[q].form) /\ y.editable => y.muted
               /\ \A d \in Q!Busy' : call'[d].form = quote[q].form => call'[d].at \in {"sent", "pushing"}
    <3>1. call[c].form # quote[q].form
      BY <1>1, <1>2, <1>4, <2>1 DEF Q!Over
    <3>2. Q!Shows(quote[q].form) => ~call[c].mine /\ y = page
      BY <1>6, <1>8, <3>1 DEF On
    <3> QED BY <1>4, <1>10, <2>1, <3>2 DEF Q!Over
  <2>2. \A q \in DOMAIN quote : Q!Shows(quote[q].form)' => Q!Shows(quote'[q].form)
    BY <1>9
  <2> QED BY <1>1, <1>5, <2>1, <2>2 DEF Q!Over
<1>16. Q!OneQuoteOfAForm'
  <2>1. ASSUME NEW q \in DOMAIN quote, quote[q].inline, text = quote[q].form, quote[q].form \notin reused'
        PROVE  \E d \in Run : call'[d].at = "sent" /\ call'[d].id = q
    <3>1. \E d \in Run : Q!IsAt(d, "sent") /\ call[d].id = q
      BY <1>4, <2>1 DEF Q!OneQuoteOfAForm
    <3>2. PICK d \in Run : call[d].at = "sent" /\ call[d].id = q
      BY <3>1 DEF Q!IsAt
    <3>3. d # c
      <4>1. d \in Q!Busy /\ q # 0
        BY <2>1, <3>2, EditorIs DEF Active, Q!Idle, EditorTypes
      <4>2. quote[q].form = call[d].form
        BY <3>2, <4>1 DEF Q!Linked
      <4> QED BY <1>1, <2>1, <3>2, <4>2
    <3> QED BY <1>3, <3>2, <3>3
  <2>2. \A p, q \in DOMAIN quote : quote[p].form = quote[q].form => p = q \/ quote[p].form \in reused'
    BY <1>4 DEF Q!OneQuoteOfAForm
  <2> QED BY <1>1, <2>1, <2>2 DEF Q!OneQuoteOfAForm, Q!IsAt
<1> QED BY <1>7, <1>12, <1>13, <1>14, <1>15, <1>16

LEMMA EditorInit == Q!Init => Q!EditorInv
<1> SUFFICES ASSUME Q!Init PROVE Q!EditorInv
  OBVIOUS
<1>1. /\ quote = <<>> /\ text = 0 /\ forms = 0 /\ page = Q!Away /\ call = [c \in Run |-> Q!Idle]
      /\ reused = {}
  BY DEF Q!Init
<1>2. EditorTypes
  BY <1>1 DEF EditorTypes
<1>3. Q!Busy = {} /\ Q!Mine = {}
  BY <1>1, <1>2, EditorIs DEF Active
<1>4. \A q \in DOMAIN quote : FALSE
  BY <1>1
<1>5. Q!Linked /\ Q!Owned /\ Q!Unmade /\ Q!Over /\ Q!OneQuoteOfAForm
  BY <1>1, <1>3, <1>4 DEF Q!Linked, Q!Owned, Q!Unmade, Q!Over, Q!OneQuoteOfAForm
<1> QED BY <1>2, <1>5, EditorParts

LEMMA EditorStep == Q!EditorInv /\ [Q!Next]_(Q!vars) => Q!EditorInv'
<1> SUFFICES ASSUME Q!EditorInv, [Q!Next]_(Q!vars) PROVE Q!EditorInv'
  OBVIOUS
<1>1. CASE UNCHANGED Q!vars
  BY <1>1, EditorParts DEF Q!vars, EditorTypes, Q!Linked, Q!Owned, Q!Unmade, Q!Over, Q!OneQuoteOfAForm,
     Q!Busy, Q!Mine, Q!IsAt, Q!Made, Q!Shows
<1>2. CASE Q!Next
  BY <1>2, EditorOpenNew, EditorClose, EditorEdit, EditorSendSaved, EditorOpenQuote, EditorStart,
     EditorPersist, EditorPersisted, EditorTransition, EditorForget, EditorPush, EditorFail DEF Q!Next
<1> QED BY <1>1, <1>2

LEMMA EditorSuffices == Q!EditorInv => Q!OneQuoteOfAForm
  BY DEF Q!EditorInv

(***************************************************************************)
(* The list of customers in the browser.                                   *)
(***************************************************************************)

Reading == [at : {"read"}, list : [Product -> Nat]]
Changing == {L!Idle} \cup [at : {"sent"}, row : Product]
               \cup [at : {"served"}, row : Product, version : Nat, new : BOOLEAN]

ListTypes ==
    /\ rows \in [Product -> Nat] /\ cache \in {L!NoList} \cup [Product -> Nat] /\ news \in Nat
    /\ fetch \in {L!Idle, [at |-> "sent"]} \cup Reading
    /\ change \in [Other -> Changing] /\ overtaken \in BOOLEAN

LEMMA ListTypesOK == (L!TypeOK <=> ListTypes) /\ (L!TypeOK' <=> ListTypes')
  BY DEF L!TypeOK, ListTypes, Reading, Changing

LEMMA FetchFields ==
    \A f \in {L!Idle, [at |-> "sent"]} \cup Reading :
        /\ f.at \in {"idle", "sent", "read"}
        /\ f.at = "idle" <=> f = L!Idle
        /\ f.at = "read" => f.list \in [Product -> Nat]
  BY DEF L!Idle, Reading

LEMMA ChangingFields ==
    \A f \in Changing :
        /\ f.at \in {"sent", "served"} => f.row \in Product
        /\ f.at = "served" => f.version \in Nat /\ f.new \in BOOLEAN
        /\ f.at = "idle" <=> f = L!Idle
  BY DEF L!Idle, Changing

\* A row that is edited gets a version.
LEMMA EditsAreVersions == \A r : L!Edits(r) \subseteq Nat
  BY DEF L!Edits

LEMMA ListParts ==
    /\ L!ListInv <=> /\ ListTypes /\ (fetch = L!Idle => cache \in [Product -> Nat])
                     /\ ~overtaken /\ news = 0 => /\ fetch.at = "read" => L!Agrees(fetch.list)
                                                  /\ fetch = L!Idle => L!Agrees(cache)
    /\ L!ListInv' <=> /\ ListTypes' /\ (fetch' = L!Idle => cache' \in [Product -> Nat])
                      /\ ~overtaken' /\ news' = 0 => /\ fetch'.at = "read" => L!Agrees(fetch.list)'
                                                     /\ fetch' = L!Idle => L!Agrees(cache)'
  BY ListTypesOK DEF L!ListInv

LEMMA ListInit == L!Init => L!ListInv
<1> SUFFICES ASSUME L!Init PROVE L!ListInv
  OBVIOUS
<1>1. /\ fetch = [at |-> "sent"] /\ cache = L!NoList /\ news = 0 /\ overtaken = FALSE
      /\ change = [c \in Other |-> L!Idle] /\ rows \in [Product -> 0..1]
  BY DEF L!Init
<1>2. rows \in [Product -> Nat]
  BY <1>1
<1>3. ListTypes
  BY <1>1, <1>2 DEF ListTypes, Changing
<1> QED BY <1>1, <1>3, ListParts, FetchFields

\* A change elsewhere is announced before the list is read.
LEMMA ListOthers ==
    ASSUME L!ListInv, NEW r \in Product, L!Others(r)
    PROVE  L!ListInv'
<1> USE ListParts
<1>1. PICK v \in L!Edits(r) : rows' = [rows EXCEPT ![r] = v]
  BY DEF L!Others
<1>2. v \in Nat
  BY EditsAreVersions
<1>3. news' = news + 1 /\ UNCHANGED <<cache, fetch, change, overtaken>>
  BY DEF L!Others
<1>4. ListTypes' /\ news' # 0
  BY <1>1, <1>2, <1>3 DEF ListTypes
<1> QED BY <1>3, <1>4

LEMMA ListLose == ASSUME L!ListInv, L!Lose PROVE L!ListInv'
<1> USE ListParts
<1>1. /\ news' = news - 1 /\ news > 0 /\ overtaken' = TRUE
      /\ UNCHANGED <<rows, cache, fetch, change>>
  BY DEF L!Lose
<1>2. ListTypes'
  BY <1>1 DEF ListTypes
<1> QED BY <1>1, <1>2

LEMMA ListHear == ASSUME L!ListInv, L!Hear PROVE L!ListInv'
<1> USE ListParts
<1>1. /\ news' = news - 1 /\ news > 0 /\ UNCHANGED <<rows, change, overtaken>>
      /\ cache' = L!NoList /\ fetch' = [at |-> "sent"]
  BY DEF L!Hear, L!Matches
<1>2. ListTypes'
  BY <1>1 DEF ListTypes
<1> QED BY <1>1, <1>2, FetchFields

LEMMA ListVisit == ASSUME L!ListInv, L!Visit PROVE L!ListInv'
<1> USE ListParts
<1>1. fetch' = [at |-> "sent"] /\ UNCHANGED <<rows, cache, change, news, overtaken>>
  BY DEF L!Visit
<1>2. ListTypes'
  BY <1>1 DEF ListTypes
<1> QED BY <1>1, <1>2, FetchFields

LEMMA ListRead == ASSUME L!ListInv, L!Read PROVE L!ListInv'
<1> USE ListParts
<1>1. /\ fetch' = [at |-> "read", list |-> rows] /\ overtaken' = FALSE
      /\ UNCHANGED <<rows, cache, change, news>>
  BY DEF L!Read
<1>2. fetch' \in Reading /\ fetch'.at = "read" /\ fetch'.list = rows'
  BY <1>1 DEF ListTypes, Reading
<1>3. ListTypes'
  BY <1>1, <1>2 DEF ListTypes
<1>4. fetch' # L!Idle
  BY <1>2 DEF L!Idle
<1> QED BY <1>2, <1>3, <1>4 DEF L!Agrees

LEMMA ListLoaded == ASSUME L!ListInv, L!Loaded PROVE L!ListInv'
<1> USE ListParts
<1>1. /\ fetch.at = "read" /\ cache' = fetch.list /\ fetch' = L!Idle
      /\ UNCHANGED <<rows, change, news, overtaken>>
  BY DEF L!Loaded
<1>2. cache' \in [Product -> Nat]
  BY <1>1, FetchFields DEF ListTypes
<1>3. ListTypes'
  BY <1>1, <1>2 DEF ListTypes
<1>4. fetch'.at = "idle"
  BY <1>1 DEF L!Idle
<1> QED BY <1>1, <1>2, <1>3, <1>4 DEF L!Agrees, L!Lists

LEMMA ListAsk ==
    ASSUME L!ListInv, NEW c \in Other, NEW r \in Product, L!Ask(c, r)
    PROVE  L!ListInv'
<1> USE ListParts
<1>1. /\ change' = [change EXCEPT ![c] = [at |-> "sent", row |-> r]]
      /\ UNCHANGED <<rows, cache, fetch, news, overtaken>>
  BY DEF L!Ask
<1>2. [at |-> "sent", row |-> r] \in Changing
  BY DEF Changing
<1>3. ListTypes'
  BY <1>1, <1>2 DEF ListTypes
<1> QED BY <1>1, <1>3 DEF L!Agrees, L!Lists

LEMMA ListServe ==
    ASSUME L!ListInv, NEW c \in Other, L!Serve(c)
    PROVE  L!ListInv'
<1> USE ListParts
<1>1. change[c].at = "sent" /\ UNCHANGED <<cache, fetch, overtaken>>
  BY DEF L!Serve
<1>2. PICK r \in Product : r = change[c].row
  BY <1>1, ChangingFields DEF ListTypes
<1>3. CASE change' = [change EXCEPT ![c] = L!Idle] /\ UNCHANGED <<rows, news>>
  <2>1. ListTypes'
    BY <1>1, <1>3 DEF ListTypes, Changing
  <2> QED BY <1>1, <1>3, <2>1 DEF L!Agrees, L!Lists
<1>4. ASSUME NEW v \in L!Edits(r), rows' = [rows EXCEPT ![r] = v], news' = news + 1,
             change' = [change EXCEPT ![c] = [at |-> "served", row |-> r, version |-> v,
                                              new |-> rows[r] = 0]]
      PROVE  L!ListInv'
  <2>1. v \in Nat
    BY EditsAreVersions
  <2>2. PICK b \in BOOLEAN : b <=> rows[r] = 0
    OBVIOUS
  <2>3. [at |-> "served", row |-> r, version |-> v, new |-> b] \in Changing
    BY <2>1 DEF Changing
  <2>4. [at |-> "served", row |-> r, version |-> v, new |-> rows[r] = 0] \in Changing
    BY <2>2, <2>3
  <2>5. ListTypes' /\ news' # 0
    BY <1>1, <1>4, <2>1, <2>4 DEF ListTypes
  <2> QED BY <1>1, <2>5
<1> QED BY <1>2, <1>3, <1>4 DEF L!Serve

\* The answer to a change is written into the list that is there.
LEMMA ListAnswer ==
    ASSUME L!ListInv, NEW c \in Other, L!Answer(c)
    PROVE  L!ListInv'
<1> USE ListParts
<1>1. /\ change[c].at = "served" /\ fetch' = L!Idle /\ UNCHANGED <<rows, news>>
      /\ change' = [change EXCEPT ![c] = L!Idle]
  BY DEF L!Answer
<1>2. PICK r \in Product, v \in Nat, b \in BOOLEAN :
        r = change[c].row /\ v = change[c].version /\ b = change[c].new
  BY <1>1, ChangingFields DEF ListTypes
<1>3. /\ cache' = IF b \/ L!Lists(L!Previous, r) > 0 THEN [L!Previous EXCEPT ![r] = v] ELSE L!Previous
      /\ overtaken' = (overtaken \/ fetch # L!Idle \/ ~L!Shown \/ rows[r] # v)
  BY <1>2 DEF L!Answer
<1>4. L!Previous \in [Product -> Nat]
  BY DEF L!Previous, L!Nothing, L!Shown, ListTypes
<1>5. cache' \in [Product -> Nat] /\ fetch'.at = "idle"
  BY <1>1, <1>3, <1>4 DEF L!Idle
<1>6. ListTypes'
  BY <1>1, <1>3, <1>5 DEF ListTypes, Changing
<1>7. ASSUME ~overtaken', news' = 0 PROVE L!Agrees(cache)'
  <2>1. ~overtaken /\ fetch = L!Idle /\ L!Shown /\ rows[r] = v /\ news = 0
    BY <1>1, <1>3, <1>7
  <2>2. cache \in [Product -> Nat] /\ L!Previous = cache /\ L!Agrees(cache)
    BY <2>1 DEF L!Previous
  <2>3. L!Lists(cache, r) = L!Lists(rows, r)
    BY <2>2 DEF L!Agrees
  <2>4. ASSUME NEW s \in Product PROVE L!Lists(cache', s) = L!Lists(rows, s)
    <3>1. CASE s # r
      <4>1. cache'[s] = cache[s]
        BY <1>3, <2>2, <3>1
      <4> QED BY <2>2, <4>1 DEF L!Agrees, L!Lists
    <3>2. CASE s = r /\ cache' = [cache EXCEPT ![r] = v]
      BY <2>1, <2>2, <3>2 DEF L!Lists
    <3>3. CASE s = r /\ cache' = cache
      BY <2>3, <3>3
    <3> QED BY <1>3, <2>2, <3>1, <3>2, <3>3
  <2> QED BY <1>1, <2>4 DEF L!Agrees, L!Lists
<1> QED BY <1>1, <1>5, <1>6, <1>7

LEMMA ListStep == L!ListInv /\ [L!Next]_(L!vars) => L!ListInv'
<1> SUFFICES ASSUME L!ListInv, [L!Next]_(L!vars) PROVE L!ListInv'
  OBVIOUS
<1>1. CASE UNCHANGED L!vars
  BY <1>1, ListParts DEF L!vars, ListTypes, L!Agrees, L!Lists
<1>2. CASE L!Next
  BY <1>2, ListOthers, ListLose, ListHear, ListVisit, ListRead, ListLoaded, ListAsk, ListServe,
     ListAnswer DEF L!Next
<1> QED BY <1>1, <1>2

LEMMA ListSuffices == L!ListInv => L!ListTells
  BY DEF L!ListInv, L!ListTells, L!Agrees

(***************************************************************************)
(* The page of purchase suggestions.                                       *)
(***************************************************************************)

Deciding == {A!Idle} \cup [at : {"sent", "done", "refused"}, to : A!Status, before : A!Status]
Asking == [at : {"sent"}, kind : {"effect", "free"}, older : {{}}]
Answered == [at : {"seen"}, kind : {"effect", "free"}, status : A!Status, older : SUBSET Run]
Loading == {A!Idle} \cup Asking \cup Answered

PageTypes ==
    /\ server \in A!Status /\ shown \in A!Status \cup {"none"}
    /\ due \in BOOLEAN /\ crossed \in BOOLEAN
    /\ decision \in [Run -> Deciding] /\ load \in [Run -> Loading]

LEMMA PageTypesOK == (A!TypeOK <=> PageTypes) /\ (A!TypeOK' <=> PageTypes')
  BY DEF A!TypeOK, PageTypes, Deciding, Asking, Answered, Loading

LEMMA LoadingFields ==
    \A f \in Loading :
        /\ f.at \in {"idle", "sent", "seen"}
        /\ f.at = "idle" <=> f = A!Idle
        /\ f.at # "idle" => f.kind \in {"effect", "free"}
        /\ f.at = "seen" => f.status \in A!Status /\ f.older \subseteq Run
  BY DEF A!Idle, Asking, Answered, Loading

LEMMA DecidingFields ==
    \A f \in Deciding :
        /\ f.at \in {"idle", "sent", "done", "refused"}
        /\ f.at # "idle" => f.to \in A!Status /\ f.before \in A!Status
        /\ f.at # "idle" => \A s \in {"done", "refused"} : [f EXCEPT !.at = s] \in Deciding
  BY DEF A!Idle, Deciding

Quiet == ~crossed /\ ~due /\ ~A!Busy(decision)
Right == A!Settled \/ \E m \in Run : A!Fresh(m)

LEMMA PageParts ==
    /\ A!PageInv <=> PageTypes /\ (Quiet => Right)
    /\ A!PageInv' <=> PageTypes' /\ (Quiet' => Right')
  BY PageTypesOK DEF A!PageInv, Quiet, Right

LEMMA StillRight ==
    ASSUME Right, UNCHANGED <<server, shown, load>>
    PROVE  Right'
  BY DEF Right, A!Settled, A!Fresh, A!OutOfDate, A!At

LEMMA AdvicePageInit == A!Init => A!PageInv
<1> SUFFICES ASSUME A!Init PROVE A!PageInv
  OBVIOUS
<1>1. PageTypes
  BY DEF A!Init, PageTypes, A!Status, Deciding, Loading
<1>2. \A l \in Run : ~A!OutOfDate(l)
  BY DEF A!Init, A!OutOfDate, A!At, A!Idle
<1> QED BY <1>1, <1>2, PageParts DEF A!Init, Right, A!Settled

\* While a decision is under way nothing is asked of the loads.
LEMMA PageDecides ==
    ASSUME A!PageInv, NEW d \in Run,
           A!Serve(d) \/ A!Succeed(d) \/ A!TakeBack(d) \/ \E to \in A!Status : A!Decide(d, to)
    PROVE  A!PageInv'
<1> USE PageParts
<1>1. CASE A!Serve(d)
  <2>1. PICK s \in {"done", "refused"} : decision' = [decision EXCEPT ![d] = [decision[d] EXCEPT !.at = s]]
    BY <1>1 DEF A!Serve
  <2>2. decision[d].at # "idle" /\ decision[d].to \in A!Status
    BY <1>1, DecidingFields DEF A!Serve, A!At, PageTypes
  <2>3. decision' \in [Run -> Deciding]
    BY <2>1, <2>2, DecidingFields DEF PageTypes
  <2>4. PageTypes'
    BY <1>1, <2>2, <2>3 DEF A!Serve, PageTypes
  <2>5. decision'[d].at = s
    BY <2>1, <2>2 DEF PageTypes, Deciding, A!Idle
  <2>6. A!Busy(decision)'
    BY <2>3, <2>5 DEF A!Busy, A!At
  <2> QED BY <2>4, <2>6 DEF Quiet
<1>2. CASE A!Succeed(d)
  <2>1. decision[d].to \in A!Status
    BY <1>2, DecidingFields DEF A!Succeed, A!At, PageTypes
  <2>2. PageTypes' /\ due'
    BY <1>2, <2>1 DEF A!Succeed, A!TimerAfter, PageTypes, Deciding
  <2> QED BY <2>2 DEF Quiet
<1>3. CASE A!TakeBack(d)
  <2>1. decision[d].before \in A!Status
    BY <1>3, DecidingFields DEF A!TakeBack, A!At, PageTypes
  <2>2. PageTypes' /\ crossed'
    BY <1>3, <2>1 DEF A!TakeBack, PageTypes, Deciding
  <2> QED BY <2>2 DEF Quiet
<1>4. ASSUME NEW to \in A!Status, A!Decide(d, to)
      PROVE  A!PageInv'
  <2>1. shown \in A!Status
    BY <1>4 DEF A!Decide, A!Allowed, A!Status
  <2>2. PICK x : x = [at |-> "sent", to |-> to, before |-> shown]
    OBVIOUS
  <2>3. x \in Deciding /\ x.at = "sent"
    BY <2>1, <2>2 DEF Deciding
  <2>4. decision' = [decision EXCEPT ![d] = x] /\ crossed' \in BOOLEAN
    BY <1>4, <2>2 DEF A!Decide, A!Busy, PageTypes
  <2>5. PageTypes' /\ decision'[d].at = "sent"
    BY <1>4, <2>3, <2>4 DEF A!Decide, PageTypes
  <2>6. A!Busy(decision)'
    BY <2>5 DEF A!Busy, A!At, PageTypes
  <2> QED BY <2>5, <2>6 DEF Quiet
<1> QED BY <1>1, <1>2, <1>3, <1>4

\* A load that begins may cut others off, but none that the invariant speaks of.
LEMMA PageBegins ==
    ASSUME A!PageInv, NEW l \in Run, NEW kind \in {"effect", "free"}, A!Begin(l, kind),
           UNCHANGED <<server, shown, decision, crossed>>, due' \in BOOLEAN,
           due' = due \/ kind = "free"
    PROVE  A!PageInv'
<1> USE PageParts
<1>1. PICK x : x = [at |-> "sent", kind |-> kind, older |-> {}]
  OBVIOUS
<1>2. x \in Asking /\ x.at = "sent" /\ x.kind = kind
  BY <1>1 DEF Asking
<1>3. /\ load' \in [Run -> Loading] /\ load'[l] = x
      /\ \A m \in Run : m # l => load'[m] = load[m] \/ (load'[m] = A!Idle /\ load[m].kind = "effect")
  BY <1>1, <1>2 DEF A!Begin, PageTypes, Loading
<1>4. PageTypes'
  BY <1>3 DEF PageTypes
<1>5. \A m \in Run : A!OutOfDate(m)' => A!OutOfDate(m)
  BY <1>2, <1>3 DEF A!OutOfDate, A!At, A!Idle
<1>6. load[l].at = "idle"
  BY DEF A!Begin, A!At
<1>7. ASSUME Right PROVE Right'
  <2>1. CASE A!Settled
    BY <1>5, <2>1 DEF Right, A!Settled
  <2>2. ASSUME NEW m \in Run, A!Fresh(m) PROVE A!Fresh(m)'
    <3>1. m # l /\ load[m].kind = "free"
      BY <1>6, <2>2 DEF A!Fresh, A!At
    <3>2. load'[m] = load[m]
      BY <1>3, <3>1
    <3> QED BY <1>5, <2>2, <3>2 DEF A!Fresh, A!OutOfDate, A!At
  <2> QED BY <1>7, <2>1, <2>2 DEF Right
<1>8. CASE due' = due
  BY <1>4, <1>7, <1>8 DEF Quiet
<1>9. CASE kind = "free"
  <2>1. A!Fresh(l)'
    BY <1>2, <1>3, <1>9 DEF A!Fresh, A!OutOfDate, A!At
  <2> QED BY <1>4, <2>1 DEF Right
<1> QED BY <1>8, <1>9

\* A load that reads now is in date, and knows the loads that were read before.
LEMMA PageLooks ==
    ASSUME A!PageInv, NEW l \in Run, A!Look(l)
    PROVE  A!PageInv'
<1> USE PageParts
<1>1. load[l].at = "sent" /\ UNCHANGED <<server, shown, decision, due, crossed>>
  BY DEF A!Look, A!At
<1>2. PICK O : O = {m \in Run : A!At(load, m, "seen")}
  OBVIOUS
<1>3. PICK x : x = [at |-> "seen", kind |-> load[l].kind, status |-> server, older |-> O]
  OBVIOUS
<1>4. load[l].kind \in {"effect", "free"}
  BY <1>1, LoadingFields DEF PageTypes
<1>5. /\ x \in Answered /\ x.at = "seen" /\ x.kind = load[l].kind
      /\ x.status = server /\ x.older = O
  BY <1>2, <1>3, <1>4 DEF Answered, PageTypes
<1>6. load' = [load EXCEPT ![l] = x]
  BY <1>2, <1>3 DEF A!Look
<1>7. load' \in [Run -> Loading] /\ load'[l] = x /\ \A m \in Run : m # l => load'[m] = load[m]
  BY <1>5, <1>6 DEF PageTypes, Loading
<1>8. PageTypes'
  BY <1>1, <1>7 DEF PageTypes
<1>9. ~A!OutOfDate(l)' /\ \A m \in Run : A!OutOfDate(m)' => A!OutOfDate(m) /\ m # l
  BY <1>1, <1>5, <1>7 DEF A!OutOfDate, A!At
<1>10. ASSUME Right PROVE Right'
  <2>1. CASE A!Settled
    BY <1>1, <1>9, <2>1 DEF Right, A!Settled
  <2>2. ASSUME NEW m \in Run, A!Fresh(m), m # l PROVE A!Fresh(m)'
    BY <1>1, <1>7, <1>9, <2>2 DEF A!Fresh, A!OutOfDate, A!At
  <2>3. CASE A!Fresh(l)
    <3>1. load'[l].at = "seen" /\ load'[l].kind = "free" /\ load'[l].older = O
      BY <1>5, <1>7, <2>3 DEF A!Fresh
    <3>2. \A m \in Run : A!OutOfDate(m)' => m \in O
      BY <1>2, <1>9 DEF A!OutOfDate
    <3>3. A!Fresh(l)'
      BY <1>9, <3>1, <3>2 DEF A!Fresh, A!At
    <3> QED BY <3>3 DEF Right
  <2> QED BY <1>10, <2>1, <2>2, <2>3 DEF Right
<1> QED BY <1>1, <1>8, <1>10 DEF Quiet

\* The answer of a load that is in date settles the page, when no older one is out.
LEMMA PageAnswers ==
    ASSUME A!PageInv, NEW l \in Run, A!Answer(l)
    PROVE  A!PageInv'
<1> USE PageParts
<1>1. /\ load[l].at = "seen" /\ shown' = load[l].status /\ UNCHANGED <<server, decision, due>>
      /\ load' = [load EXCEPT ![l] = A!Idle]
      /\ crossed' = (crossed \/ \E m \in load[l].older : A!At(load, m, "seen"))
  BY DEF A!Answer, A!At
<1>2. load[l].status \in A!Status
  BY <1>1, LoadingFields DEF PageTypes
<1>3. /\ load' \in [Run -> Loading] /\ load'[l] = A!Idle
      /\ \A m \in Run : m # l => load'[m] = load[m]
  BY <1>1 DEF PageTypes, Loading
<1>4. crossed' \in BOOLEAN
  BY <1>1 DEF PageTypes
<1>5. PageTypes'
  BY <1>1, <1>2, <1>3, <1>4 DEF PageTypes
<1>6. \A m \in Run : A!OutOfDate(m)' => A!OutOfDate(m) /\ m # l
  BY <1>1, <1>3 DEF A!OutOfDate, A!At, A!Idle
<1>7. ASSUME Right, ~crossed' PROVE Right'
  <2>1. CASE A!Settled
    <3>1. ~A!OutOfDate(l)
      BY <2>1 DEF A!Settled
    <3>2. shown' = server'
      BY <1>1, <3>1 DEF A!OutOfDate, A!At
    <3> QED BY <1>6, <2>1, <3>2 DEF Right, A!Settled
  <2>2. ASSUME NEW m \in Run, A!Fresh(m), m # l PROVE A!Fresh(m)'
    BY <1>1, <1>3, <1>6, <2>2 DEF A!Fresh, A!OutOfDate, A!At
  <2>3. CASE A!Fresh(l)
    <3>1. ~A!OutOfDate(l) /\ \A m \in Run : A!OutOfDate(m) => m \in load[l].older
      BY <1>1, <2>3 DEF A!Fresh, A!At
    <3>2. \A m \in load[l].older : ~A!At(load, m, "seen")
      BY <1>1, <1>7
    <3>3. \A m \in Run : ~A!OutOfDate(m)
      BY <3>1, <3>2 DEF A!OutOfDate
    <3>4. shown' = server'
      BY <1>1, <3>1 DEF A!OutOfDate, A!At
    <3> QED BY <1>6, <3>3, <3>4 DEF Right, A!Settled
  <2> QED BY <1>7, <2>1, <2>2, <2>3 DEF Right
<1> QED BY <1>1, <1>5, <1>7 DEF Quiet

LEMMA PageDrops ==
    ASSUME A!PageInv, NEW l \in Run, A!Drop(l)
    PROVE  A!PageInv'
<1>1. PageTypes' /\ crossed'
  BY PageParts DEF A!Drop, PageTypes, Loading
<1> QED BY <1>1, PageParts DEF Quiet

LEMMA AdvicePageStep == A!PageInv /\ [A!Next]_(A!vars) => A!PageInv'
<1> SUFFICES ASSUME A!PageInv, [A!Next]_(A!vars) PROVE A!PageInv'
  OBVIOUS
<1>1. CASE UNCHANGED A!vars
  <2>1. PageTypes' /\ (Quiet' => Quiet)
    BY <1>1, PageParts DEF A!vars, PageTypes, Quiet, A!Busy, A!At
  <2> QED BY <1>1, <2>1, StillRight, PageParts DEF A!vars
<1>2. ASSUME NEW l \in Run, A!ByEffect(l) PROVE A!PageInv'
  BY <1>2, PageBegins, PageParts DEF A!ByEffect, PageTypes
<1>3. ASSUME NEW l \in Run, A!ByTimer(l) PROVE A!PageInv'
  BY <1>3, PageBegins, PageParts DEF A!ByTimer, PageTypes
<1>4. ASSUME NEW l \in Run, A!ByHand(l) PROVE A!PageInv'
  BY <1>4, PageBegins, PageParts DEF A!ByHand, PageTypes
<1>5. CASE A!Next
  BY <1>2, <1>3, <1>4, <1>5, PageDecides, PageLooks, PageAnswers, PageDrops DEF A!Next, A!Status
<1> QED BY <1>1, <1>5

LEMMA AdvicePageSuffices == A!PageInv => A!PageTells
<1> SUFFICES ASSUME A!PageInv, Quiet, ~A!Busy(load) PROVE shown \in {"none", server}
  BY DEF A!PageTells, Quiet
<1>1. \A m \in Run : A!At(load, m, "idle")
  BY PageParts DEF PageTypes, A!Busy
<1>2. \A m \in Run : ~A!Fresh(m)
  BY <1>1 DEF A!Fresh
<1> QED BY <1>2, PageParts DEF Right, A!Settled

(***************************************************************************)
(* The desk.                                                               *)
(***************************************************************************)

\* A step of the desk is a step of a part or leaves it alone.
LEMMA DeskVoice == [Next]_vars => [V!Next]_(V!vars)
<1>1. CASE part = "voice"
  BY <1>1 DEF Next, Step, vars, voiceVars, V!vars
<1>2. CASE part # "voice"
  BY <1>2 DEF Next, vars, voiceVars, V!vars
<1> QED BY <1>1, <1>2

LEMMA DeskLimit == [Next]_vars => [M!Next]_(M!vars)
<1>1. CASE part = "limit"
  BY <1>1 DEF Next, Step, vars, limitVars, M!vars
<1>2. CASE part # "limit"
  BY <1>2 DEF Next, vars, limitVars, M!vars
<1> QED BY <1>1, <1>2

LEMMA DeskDocument == [Next]_vars => [D!Next]_(D!vars)
<1>1. CASE part = "document"
  BY <1>1 DEF Next, Step, vars, documentVars, D!vars
<1>2. CASE part # "document"
  BY <1>2 DEF Next, vars, documentVars, D!vars
<1> QED BY <1>1, <1>2

LEMMA DeskBatch == [Next]_vars => [B!Next]_(B!vars)
<1>1. CASE part = "batch"
  BY <1>1 DEF Next, Step, vars, batchVars, B!vars
<1>2. CASE part # "batch"
  BY <1>2 DEF Next, vars, batchVars, B!vars
<1> QED BY <1>1, <1>2

LEMMA DeskStock == [Next]_vars => [S!Next]_(S!vars)
<1>1. CASE part = "stock"
  BY <1>1 DEF Next, Step, vars, stockVars, S!vars
<1>2. CASE part # "stock"
  BY <1>2 DEF Next, vars, stockVars, S!vars
<1> QED BY <1>1, <1>2

LEMMA DeskBill == [Next]_vars => [P!Next]_(P!vars)
<1>1. CASE part = "bill"
  BY <1>1 DEF Next, Step, vars, billVars, P!vars
<1>2. CASE part # "bill"
  BY <1>2 DEF Next, vars, billVars, P!vars
<1> QED BY <1>1, <1>2

LEMMA DeskFile == [Next]_vars => [F!Next]_(F!vars)
<1>1. CASE part = "file"
  BY <1>1 DEF Next, Step, vars, fileVars, F!vars
<1>2. CASE part # "file"
  BY <1>2 DEF Next, vars, fileVars, F!vars
<1> QED BY <1>1, <1>2

LEMMA DeskArchive == [Next]_vars => [X!Next]_(X!vars)
<1>1. CASE part = "archive"
  BY <1>1 DEF Next, Step, vars, archiveVars, X!vars
<1>2. CASE part # "archive"
  BY <1>2 DEF Next, vars, archiveVars, X!vars
<1> QED BY <1>1, <1>2

LEMMA DeskAdvice == [Next]_vars => [R!Next]_(R!vars)
<1>1. CASE part = "advice"
  BY <1>1 DEF Next, Step, vars, adviceVars, R!vars
<1>2. CASE part # "advice"
  BY <1>2 DEF Next, vars, adviceVars, R!vars
<1> QED BY <1>1, <1>2

LEMMA AdviceSteps == R!AdviceInv /\ [Next]_vars => R!AdviceInv'
<1>1. [Next]_vars => R!Next \/ UNCHANGED <<need, gone, rec, copilot, user, calm>>
  BY DeskAdvice DEF R!vars
<1> QED BY <1>1, AdviceStep

LEMMA DeskSuggestions == [Next]_vars => [A!Next]_(A!vars)
<1>1. CASE part = "suggestions"
  BY <1>1 DEF Next, Step, vars, suggestionsVars, A!vars
<1>2. CASE part # "suggestions"
  BY <1>2 DEF Next, vars, suggestionsVars, A!vars
<1> QED BY <1>1, <1>2

LEMMA DeskQuote == [Next]_vars => [Q!Next]_(Q!vars)
<1>1. CASE part = "quote"
  BY <1>1 DEF Next, Step, vars, quoteVars, Q!vars
<1>2. CASE part # "quote"
  BY <1>2 DEF Next, vars, quoteVars, Q!vars
<1> QED BY <1>1, <1>2

LEMMA DeskList == [Next]_vars => [L!Next]_(L!vars)
<1>1. CASE part = "list"
  BY <1>1 DEF Next, Step, vars, listVars, L!vars
<1>2. CASE part # "list"
  BY <1>2 DEF Next, vars, listVars, L!vars
<1> QED BY <1>1, <1>2

\* The assistant keeps to what it was granted, for any number of takes, any limit,
\* window, threshold and number of requests: no microphone is open behind the page's
\* back, nothing cancelled is heard, and the two ways of counting, one after the
\* other, let through less than three times the limit in a window.
THEOREM AssistantKeepsBounds == Spec => []AssistantBounded
<1>1. Init => V!VoiceInv /\ M!LimitInv
  BY VoiceInit, LimitInit DEF Init
<1>2. V!VoiceInv /\ M!LimitInv /\ [Next]_vars => (V!VoiceInv /\ M!LimitInv)'
  BY DeskVoice, DeskLimit, VoiceStep, LimitStep
<1>3. V!VoiceInv /\ M!LimitInv => AssistantBounded
  BY VoiceSuffices, LimitSuffices DEF AssistantBounded
<1> QED BY <1>1, <1>2, <1>3, PTL DEF Spec

\* For any number of sessions and lines, a document that no late extraction disturbs
\* is applied once and shows what was applied; for any number of people, drafts and
\* causes, a draft of a spreadsheet is booked once.
THEOREM ImportsAreAppliedOnce == Spec => []ImportedOnce
<1>1. Init => D!DocumentInv /\ B!BatchInv
  BY DocumentInit, BatchInit DEF Init
<1>2. D!DocumentInv /\ B!BatchInv /\ [Next]_vars => (D!DocumentInv /\ B!BatchInv)'
  BY DeskDocument, DeskBatch, DocumentStep, BatchStep
<1>3. D!DocumentInv /\ B!BatchInv => ImportedOnce
  BY DocumentSuffices, BatchSuffices DEF ImportedOnce
<1> QED BY <1>1, <1>2, <1>3, PTL DEF Spec

\* For any products, stocks, faults and number of runs: a comparison of the stock that
\* nothing moves under leaves the two books agreeing or a correction or alert behind,
\* and a purchase order gets a second bill only through a run that holds a stale copy.
THEOREM RecordsKeepAgreeing == Spec => []RecordsAgree
<1>1. Init => S!MirrorInv /\ P!BillInv
  BY MirrorInit, BillInit DEF Init
<1>2. S!MirrorInv /\ P!BillInv /\ [Next]_vars => (S!MirrorInv /\ P!BillInv)'
  BY DeskStock, DeskBill, MirrorStep, BillStep
<1>3. S!MirrorInv /\ P!BillInv => RecordsAgree
  BY MirrorSuffices, BillSuffices DEF RecordsAgree
<1> QED BY <1>1, <1>2, <1>3, PTL DEF Spec

\* For any requests, files and number of faults: an archiving that runs alone fails only
\* where a failure left a torn archive or two requests overlapped; every file and its row
\* go together except where a link was torn; and a primary image is not lost to two
\* choices made at once.
THEOREM FilesStayWithRows == Spec => []FilesKept
<1>1. Init => X!ArchiveInv /\ F!StoreInv
  BY ArchiveInit, StoreInit DEF Init
<1>2. X!ArchiveInv /\ F!StoreInv /\ [Next]_vars => (X!ArchiveInv /\ F!StoreInv)'
  BY DeskArchive, DeskFile, ArchiveStepKeeps, StoreStep
<1>3. X!ArchiveInv /\ F!StoreInv => FilesKept
  BY ArchiveSuffices, StoreSuffices DEF FilesKept
<1> QED BY <1>1, <1>2, <1>3, PTL DEF Spec

\* For any needs, people, requests and number of rows: a run of the advice that nobody
\* disturbs leaves the right suggestion, with a text if the model answered, and the page
\* on which it is decided shows what the server has.
THEOREM SuggestionsTellTheTruth == Spec => []SuggestionTells
<1>1. Init => R!AdviceInv /\ A!PageInv
  BY AdviceInit, AdvicePageInit DEF Init
<1>2. R!AdviceInv /\ A!PageInv /\ [Next]_vars => (R!AdviceInv /\ A!PageInv)'
  BY DeskSuggestions, AdviceSteps, AdvicePageStep
<1>3. R!AdviceInv /\ A!PageInv => SuggestionTells
  BY AdviceSuffices, AdvicePageSuffices DEF SuggestionTells
<1> QED BY <1>1, <1>2, <1>3, PTL DEF Spec

\* For any number of forms, quotes, calls, customers and changes: the editor makes one
\* quote of a form, unless its page was used again for another, and does not bring a form
\* back that was sent; the list of customers shows what the server has.
THEOREM TabsForgetNothing == Spec => []TabTells
<1>1. Init => Q!EditorInv /\ L!ListInv
  BY EditorInit, ListInit DEF Init
<1>2. Q!EditorInv /\ L!ListInv /\ [Next]_vars => (Q!EditorInv /\ L!ListInv)'
  BY DeskQuote, DeskList, EditorStep, ListStep
<1>3. Q!EditorInv /\ L!ListInv => TabTells
  BY EditorSuffices, ListSuffices DEF TabTells
<1> QED BY <1>1, <1>2, <1>3, PTL DEF Spec

\* For any people, decisions and number of rows, no run rewrites the figures of a
\* recommendation that was decided meanwhile; for any requests and number of faults, a
\* quote is accepted only with its document archived, unless requests overlapped.
THEOREM DecisionsAreKept == Spec => DecisionsHold
<1>1. Init => R!AdviceInv /\ X!ArchiveInv
  BY AdviceInit, ArchiveInit DEF Init
<1>2. R!AdviceInv /\ X!ArchiveInv /\ [Next]_vars => (R!AdviceInv /\ X!ArchiveInv)'
  BY DeskArchive, AdviceSteps, ArchiveStepKeeps
<1>3. R!AdviceInv /\ [Next]_vars
      => [\A i \in R!Id : (i \in R!Of(Decided) /\ rec'[i].status \in Decided)
                            => rec'[i].need = rec[i].need]_(R!vars)
  BY DeskAdvice, AdviceFrozen
<1>4. X!ArchiveInv /\ [Next]_vars
      => [accepted' # accepted /\ ~raced => row # 0 /\ file]_(X!vars)
  BY DeskArchive, ArchiveAccepts
<1> QED BY <1>1, <1>2, <1>3, <1>4, PTL DEF Spec, DecisionsHold, R!FrozenDecision, X!AcceptedIsArchived
=============================================================================
