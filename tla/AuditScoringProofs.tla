------------------------- MODULE AuditScoringProofs -------------------------
(***************************************************************************)
(* Proofs about AuditScoring, for any runs, keys, overrides, job limits    *)
(* and cache ages: the inductive invariant, that a run that returns has    *)
(* reported every key once, that the totals are those of the results, and  *)
(* that the audit implements ScoringContract.                              *)
(***************************************************************************)
EXTENDS AuditScoring, FiniteSetTheorems, TLAPS

\* The keys of a run are a sequence without duplicates.
LEMMA KeyFacts ==
  ASSUME NEW p \in Process
  PROVE  /\ Keys[p] \in Seq(Key) /\ Len(Keys[p]) \in Nat
         /\ DOMAIN Keys[p] = 1 .. Len(Keys[p])
         /\ \A i \in DOMAIN Keys[p] : Keys[p][i] \in KeysOf(p)
         /\ KeysOf(p) \subseteq Key
         /\ \A i, j \in DOMAIN Keys[p] : Keys[p][i] = Keys[p][j] => i = j
BY ScoringAssumption DEF KeysOf

PcStates == {"idle", "lookup", "score", "truncate", "write", "record", "done"}

\* An identity is one of a key and its overrides.
LEMMA IdType ==
  ASSUME NEW p \in Process, NEW k \in Key
  PROVE  Id(p, k) \in Identity /\ CacheKey(p, k) = Id(p, k)
BY ScoringAssumption DEF Id, Identity, CacheKey

\* Updating one goroutine's entry of a table.
LEMMA OthersKept ==
  ASSUME NEW f, NEW p \in Process, NEW k \in Key, NEW v, NEW S,
         f \in [Process -> [Key -> S]]
  PROVE  /\ \A q \in Process, l \in Key :
              <<q, l>> # <<p, k>> => [f EXCEPT ![p][k] = v][q][l] = f[q][l]
         /\ [f EXCEPT ![p][k] = v][p][k] = v
         /\ v \in S => [f EXCEPT ![p][k] = v] \in [Process -> [Key -> S]]
OBVIOUS

\* What a goroutine's step does to the control state.
LEMMA GoroutineStep ==
  ASSUME TypeOK, NEW p \in Process, NEW k \in KeysOf(p), Goroutine(p, k)
  PROVE  /\ phase[p] = "running" /\ k \in Key
         /\ \A q \in Process, l \in Key : <<q, l>> # <<p, k>> => pc'[q][l] = pc[q][l]
         /\ pc' \in [Process -> [Key -> PcStates]]
         /\ pc[p][k] \notin {"idle", "done"}
         /\ pc'[p][k] \in {"score", "truncate", "write", "record", "done"}
         /\ (pc'[p][k] = "done") <=> Record(p, k)
         /\ UNCHANGED <<phase, launched, clock>>
<1>1. k \in Key
  BY KeyFacts
<1>2. \E v \in {"score", "truncate", "write", "record", "done"} :
        pc' = [pc EXCEPT ![p][k] = v] /\ (v = "done" <=> Record(p, k))
  BY <1>1 DEF Goroutine, LookupHit, LookupMiss, Score, ScoreFails, Truncate, Write,
              PutFails, Record, TypeOK
<1>3. /\ phase[p] = "running" /\ pc[p][k] \notin {"idle", "done"}
      /\ UNCHANGED <<phase, launched, clock>>
  BY DEF Goroutine, LookupHit, LookupMiss, Score, ScoreFails, Truncate, Write,
         PutFails, Record
<1>4. PICK v \in {"score", "truncate", "write", "record", "done"} :
        pc' = [pc EXCEPT ![p][k] = v] /\ (v = "done" <=> Record(p, k))
  BY <1>2
<1>5. pc \in [Process -> [Key -> PcStates]] /\ v \in PcStates
  BY DEF TypeOK, PcStates
<1>6. pc'[p][k] = v /\ pc' \in [Process -> [Key -> PcStates]]
  BY <1>1, <1>4, <1>5, OthersKept
<1>7. \A q \in Process, l \in Key : <<q, l>> # <<p, k>> => pc'[q][l] = pc[q][l]
  BY <1>1, <1>4, <1>5, OthersKept
<1> QED
  BY <1>1, <1>3, <1>4, <1>6, <1>7 DEF PcStates

-----------------------------------------------------------------------------
(* Types. *)

\* The initial state is well typed.
LEMMA TypeInit == Init => TypeOK
BY ScoringAssumption DEF Init, TypeOK, Answer, Entry, Totals

\* Counting an answer keeps the totals natural numbers.
LEMMA CountType ==
  ASSUME NEW t \in Totals, NEW r \in Answer, r.status # "none"
  PROVE  Count(t, r) \in Totals
<1>1. CASE r.status = "failed"
  BY <1>1 DEF Count, Totals
<1>2. CASE r.status # "failed"
  <2>1. r \in [status : {"scored", "cached"}, analysis : Analysis]
    BY <1>2 DEF Answer
  <2>2. r.analysis.findings \in Nat
    BY <2>1, ScoringAssumption DEF Analysis
  <2> DEFINE c == IF r.status = "cached" THEN t.cached + 1 ELSE t.cached
  <2>3. Count(t, r) = [scored |-> t.scored + 1, failed |-> t.failed, cached |-> c,
                       findings |-> t.findings + r.analysis.findings]
    BY <1>2 DEF Count, Totals
  <2>4. c \in Nat /\ t.scored + 1 \in Nat /\ t.findings + r.analysis.findings \in Nat
    BY <2>2 DEF Totals
  <2> QED
    BY <2>3, <2>4 DEF Totals
<1> QED
  BY <1>1, <1>2

\* Every step of a goroutine keeps the types.
LEMMA TypeGoroutine ==
  ASSUME Inv, NEW p \in Process, NEW k \in KeysOf(p), Goroutine(p, k)
  PROVE  TypeOK'
<1> USE DEF Inv
<1>1. k \in Key /\ Id(p, k) \in Identity /\ CacheKey(p, k) = Id(p, k)
  BY KeyFacts, IdType
<1>2. pc' \in [Process -> [Key -> {"idle", "lookup", "score", "truncate", "write",
                                   "record", "done"}]]
  BY GoroutineStep DEF PcStates
<1>3. UNCHANGED <<phase, launched, clock>>
  BY GoroutineStep
<1>4. CASE LookupHit(p, k)
  <2>1. cache[Id(p, k)] \in [state : {"saved"}, analysis : Analysis, savedAt : 0 .. MaxClock]
    BY <1>1, <1>4 DEF LookupHit, Hit, TypeOK, Entry
  <2>2. [status |-> "cached", analysis |-> cache[Id(p, k)].analysis] \in Answer
    BY <2>1 DEF Answer
  <2>3. answer' \in [Process -> [Key -> Answer]]
    BY <1>1, <1>4, <2>2 DEF LookupHit, TypeOK
  <2> QED
    BY <1>2, <1>3, <1>4, <2>3 DEF LookupHit, TypeOK
<1>5. CASE LookupMiss(p, k)
  BY <1>2, <1>3, <1>5 DEF LookupMiss, TypeOK
<1>6. CASE Score(p, k)
  <2>1. PICK n \in FindingCounts :
          /\ answer' = [answer EXCEPT ![p][k] =
               [status |-> "scored", analysis |-> [id |-> Id(p, k), findings |-> n]]]
          /\ genuine' = genuine \union {[id |-> Id(p, k), findings |-> n]}
    BY <1>6 DEF Score
  <2>2. [id |-> Id(p, k), findings |-> n] \in Analysis
    BY <1>1 DEF Analysis
  <2>3. [status |-> "scored", analysis |-> [id |-> Id(p, k), findings |-> n]] \in Answer
    BY <2>2 DEF Answer
  <2>4. answer' \in [Process -> [Key -> Answer]]
    BY <1>1, <2>1, <2>3 DEF TypeOK
  <2> QED
    BY <1>2, <1>3, <1>6, <2>1, <2>2, <2>4 DEF Score, TypeOK
<1>7. CASE ScoreFails(p, k)
  <2>1. [status |-> "failed"] \in Answer
    BY DEF Answer
  <2>2. answer' \in [Process -> [Key -> Answer]]
    BY <1>1, <1>7, <2>1 DEF ScoreFails, TypeOK
  <2> QED
    BY <1>2, <1>3, <1>7, <2>2 DEF ScoreFails, TypeOK
<1>8. CASE Truncate(p, k)
  BY <1>1, <1>2, <1>3, <1>8 DEF Truncate, TypeOK, Entry
<1>9. CASE Write(p, k)
  <2>1. answer[p][k] \in [status : {"scored", "cached"}, analysis : Analysis]
    <3>1. pc[p][k] = "write" /\ answer[p][k] \in Answer
      BY <1>1, <1>9 DEF Write, TypeOK
    <3>2. answer[p][k].status = "scored"
      BY <1>1, <3>1 DEF GenuineInv
    <3> QED
      BY <3>1, <3>2 DEF Answer
  <2>2. [state |-> "saved", analysis |-> answer[p][k].analysis, savedAt |-> clock] \in Entry
    BY <2>1 DEF Entry, TypeOK
  <2>3. [state |-> "torn"] \in Entry
    BY DEF Entry
  <2>4. cache' \in [Identity -> Entry]
    BY <1>1, <1>9, <2>2, <2>3 DEF Write, TypeOK
  <2> QED
    BY <1>2, <1>3, <1>9, <2>4 DEF Write, TypeOK
<1>10. CASE PutFails(p, k)
  BY <1>1, <1>2, <1>3, <1>10 DEF PutFails, TypeOK, Entry
<1>11. CASE Record(p, k)
  <2>1. answer[p][k] \in Answer /\ answer[p][k].status # "none"
    <3>1. pc[p][k] = "record" /\ answer[p][k] \in Answer
      BY <1>1, <1>11 DEF Record, TypeOK
    <3> QED
      BY <1>1, <3>1 DEF GenuineInv
  <2>2. totals' \in [Process -> Totals]
    BY <1>11, <2>1, CountType DEF Record, TypeOK
  <2>3. results' \in [Process -> Seq([key : Key, answer : Answer])]
    <3> DEFINE R == [key : Key, answer : Answer]
    <3>1. [key |-> k, answer |-> answer[p][k]] \in R
      BY <1>1, <2>1
    <3>2. results[p] \in Seq(R) /\ results \in [Process -> Seq(R)]
      BY DEF TypeOK
    <3> HIDE DEF R
    <3>3. Append(results[p], [key |-> k, answer |-> answer[p][k]]) \in Seq(R)
      BY <3>1, <3>2
    <3>4. results' \in [Process -> Seq(R)]
      BY <1>11, <3>2, <3>3 DEF Record
    <3> QED
      BY <3>4 DEF R
  <2> QED
    BY <1>2, <1>3, <1>11, <2>2, <2>3 DEF Record, TypeOK
<1> QED
  BY <1>4, <1>5, <1>6, <1>7, <1>8, <1>9, <1>10, <1>11 DEF Goroutine

\* Every step keeps the types.
LEMMA TypeNext == Inv /\ [Next]_vars => TypeOK'
<1> SUFFICES ASSUME Inv, [Next]_vars PROVE TypeOK'
  OBVIOUS
<1>1. ASSUME NEW p \in Process, NEW k \in KeysOf(p), Goroutine(p, k)
      PROVE  TypeOK'
  BY <1>1, TypeGoroutine
<1>2. ASSUME NEW p \in Process, Launch(p)
      PROVE  TypeOK'
  <2>1. launched[p] + 1 \in DOMAIN Keys[p]
    BY <1>2, KeyFacts DEF Launch, Inv, TypeOK
  <2>2. Keys[p][launched[p] + 1] \in Key
    BY <2>1, KeyFacts
  <2>3. PICK v \in {"lookup", "score"} :
          pc' = [pc EXCEPT ![p][Keys[p][launched[p] + 1]] = v]
    BY <1>2 DEF Launch
  <2>4. pc \in [Process -> [Key -> PcStates]] /\ v \in PcStates
    BY DEF Inv, TypeOK, PcStates
  <2>5. pc' \in [Process -> [Key -> PcStates]]
    BY <2>2, <2>3, <2>4, OthersKept
  <2>6. /\ launched' = [launched EXCEPT ![p] = launched[p] + 1]
        /\ UNCHANGED <<phase, answer, results, totals, cache, clock, genuine>>
    BY <1>2 DEF Launch
  <2>7. launched' \in [Process -> Nat]
    BY <2>6 DEF Inv, TypeOK
  <2> QED
    BY <2>5, <2>6, <2>7 DEF Inv, TypeOK, PcStates
<1>3. ASSUME NEW p \in Process, Return(p) \/ Crash(p)
      PROVE  TypeOK'
  BY <1>3 DEF Return, Crash, Inv, TypeOK
<1>4. CASE Tick
  <2>1. clock' \in 0 .. MaxClock
    BY <1>4, ScoringAssumption DEF Tick, Inv, TypeOK
  <2> QED
    BY <1>4, <2>1 DEF Tick, Inv, TypeOK
<1>5. CASE UNCHANGED vars
  BY <1>5 DEF vars, Inv, TypeOK
<1> QED
  BY <1>1, <1>2, <1>3, <1>4, <1>5 DEF Next, Main, Stopped

-----------------------------------------------------------------------------
(* The loop. *)

\* Nothing is launched at first.
LEMMA LoopInit == Init => LoopInv
<1> SUFFICES ASSUME Init, NEW p \in Process
             PROVE  /\ launched[p] <= Len(Keys[p])
                    /\ \A i \in DOMAIN Keys[p] : pc[p][Keys[p][i]] = "idle" <=> i > launched[p]
                    /\ phase[p] # "returned"
  BY DEF LoopInv
<1> QED
  BY KeyFacts DEF Init

\* Every step preserves LoopInv.
LEMMA LoopNext == Inv /\ [Next]_vars => LoopInv'
<1> SUFFICES ASSUME Inv, [Next]_vars PROVE LoopInv'
  OBVIOUS
<1>1. ASSUME NEW p \in Process, NEW k \in KeysOf(p), Goroutine(p, k)
      PROVE  LoopInv'
  <2>1. /\ phase[p] = "running" /\ k \in Key
        /\ \A q \in Process, l \in Key : <<q, l>> # <<p, k>> => pc'[q][l] = pc[q][l]
        /\ pc[p][k] # "idle" /\ pc'[p][k] # "idle"
        /\ UNCHANGED <<phase, launched>>
    BY <1>1, GoroutineStep DEF Inv
  <2>2. ASSUME NEW q \in Process
        PROVE  /\ launched'[q] <= Len(Keys[q])
               /\ \A i \in DOMAIN Keys[q] : pc'[q][Keys[q][i]] = "idle" <=> i > launched'[q]
               /\ phase'[q] = "returned" => \A l \in KeysOf(q) : pc'[q][l] = "done"
    <3>1. \A l \in KeysOf(q) : l \in Key /\ (q # p => pc'[q][l] = pc[q][l])
      BY <2>1, KeyFacts
    <3>2. \A i \in DOMAIN Keys[q] : pc'[q][Keys[q][i]] = "idle" <=> pc[q][Keys[q][i]] = "idle"
      BY <2>1, KeyFacts
    <3> QED
      BY <2>1, <3>1, <3>2 DEF Inv, LoopInv
  <2> QED
    BY <2>2 DEF LoopInv
<1>2. ASSUME NEW p \in Process, Launch(p)
      PROVE  LoopInv'
  <2> DEFINE k == Keys[p][launched[p] + 1]
  <2>1. launched[p] \in Nat /\ launched[p] + 1 \in DOMAIN Keys[p] /\ launched[p] < Len(Keys[p])
    BY <1>2, KeyFacts DEF Launch, Inv, TypeOK
  <2>2. k \in Key
    BY <2>1, KeyFacts
  <2>3. PICK v \in {"lookup", "score"} : pc' = [pc EXCEPT ![p][k] = v]
    BY <1>2 DEF Launch
  <2>4. pc \in [Process -> [Key -> PcStates]] /\ v \in PcStates
    BY DEF Inv, TypeOK, PcStates
  <2>5. /\ pc'[p][k] = v
        /\ \A q \in Process, l \in Key : <<q, l>> # <<p, k>> => pc'[q][l] = pc[q][l]
    BY <2>2, <2>3, <2>4, OthersKept
  <2>6. /\ launched'[p] = launched[p] + 1 /\ phase[p] = "running" /\ phase' = phase
        /\ \A q \in Process : q # p => launched'[q] = launched[q]
    BY <1>2 DEF Launch, Inv, TypeOK
  <2>7. ASSUME NEW q \in Process
        PROVE  /\ launched'[q] <= Len(Keys[q])
               /\ \A i \in DOMAIN Keys[q] : pc'[q][Keys[q][i]] = "idle" <=> i > launched'[q]
               /\ phase'[q] = "returned" => \A l \in KeysOf(q) : pc'[q][l] = "done"
    <3>1. CASE q = p
      <4>1. \A i \in DOMAIN Keys[p] : i # launched[p] + 1 => pc'[p][Keys[p][i]] = pc[p][Keys[p][i]]
        BY <2>1, <2>5, KeyFacts
      <4>2. \A i \in DOMAIN Keys[p] : pc[p][Keys[p][i]] = "idle" <=> i > launched[p]
        BY DEF Inv, LoopInv
      <4>3. \A i \in DOMAIN Keys[p] : i \in Nat
        BY KeyFacts
      <4>4. \A i \in DOMAIN Keys[p] : pc'[p][Keys[p][i]] = "idle" <=> i > launched[p] + 1
        BY <2>1, <2>5, <4>1, <4>2, <4>3
      <4> QED
        BY <2>1, <2>6, <3>1, <4>4, KeyFacts
    <3>2. CASE q # p
      <4>1. \A l \in KeysOf(q) : pc'[q][l] = pc[q][l]
        BY <2>5, <3>2, KeyFacts
      <4> QED
        BY <2>6, <3>2, <4>1, KeyFacts DEF Inv, LoopInv
    <3> QED
      BY <3>1, <3>2
  <2> QED
    BY <2>7 DEF LoopInv
<1>3. ASSUME NEW p \in Process, Return(p)
      PROVE  LoopInv'
  <2>1. /\ launched[p] = Len(Keys[p]) /\ Active(p) = {}
        /\ UNCHANGED <<launched, pc>>
        /\ \A q \in Process : q # p => phase'[q] = phase[q]
    BY <1>3 DEF Return, Inv, TypeOK
  <2>2. \A i \in DOMAIN Keys[p] : pc[p][Keys[p][i]] = "done"
    <3>1. \A i \in DOMAIN Keys[p] : ~ (i > launched[p]) /\ Keys[p][i] \in KeysOf(p)
      BY <2>1, KeyFacts
    <3>2. \A i \in DOMAIN Keys[p] : pc[p][Keys[p][i]] # "idle"
      BY <3>1 DEF Inv, LoopInv
    <3> QED
      BY <2>1, <3>1, <3>2 DEF Active
  <2>3. \A k \in KeysOf(p) : pc[p][k] = "done"
    BY <2>2 DEF KeysOf
  <2> QED
    BY <2>1, <2>3 DEF Inv, LoopInv
<1>4. ASSUME NEW p \in Process, Crash(p)
      PROVE  LoopInv'
  <2>1. /\ UNCHANGED <<launched, pc>>
        /\ \A q \in Process : phase'[q] = "returned" => phase[q] = "returned"
    BY <1>4 DEF Crash, Inv, TypeOK
  <2> QED
    BY <2>1 DEF Inv, LoopInv
<1>5. CASE Tick \/ UNCHANGED vars
  BY <1>5 DEF Tick, vars, Inv, LoopInv
<1> QED
  BY <1>1, <1>2, <1>3, <1>4, <1>5 DEF Next, Main, Stopped

-----------------------------------------------------------------------------
(* Genuine analyses. *)

\* Nothing is answered or cached at first.
LEMMA GenuineInit == Init => GenuineInv
BY DEF Init, GenuineInv

\* A goroutine's step preserves GenuineInv if what it changes satisfies it.
LEMMA GenuineGlue ==
  ASSUME Inv, NEW p \in Process, NEW k \in KeysOf(p), Goroutine(p, k),
         genuine \subseteq genuine',
         \A q \in Process, l \in Key : <<q, l>> # <<p, k>> => answer'[q][l] = answer[q][l],
         pc'[p][k] = "score" <=> answer'[p][k].status = "none",
         pc'[p][k] \in {"truncate", "write"} => answer'[p][k].status = "scored",
         answer'[p][k].status \in {"scored", "cached"} =>
           answer'[p][k].analysis \in genuine' /\ answer'[p][k].analysis.id = Id(p, k),
         \A id \in Identity : cache'[id].state = "saved" =>
           cache'[id].analysis \in genuine' /\ cache'[id].analysis.id = id
  PROVE  GenuineInv'
<1>1. /\ k \in Key
      /\ \A q \in Process, l \in Key : <<q, l>> # <<p, k>> => pc'[q][l] = pc[q][l]
      /\ pc'[p][k] \in {"score", "truncate", "write", "record", "done"}
  BY GoroutineStep DEF Inv
<1>2. ASSUME NEW q \in Process, NEW l \in Key
      PROVE  /\ pc'[q][l] \in {"idle", "lookup", "score"} <=> answer'[q][l].status = "none"
             /\ pc'[q][l] \in {"truncate", "write"} => answer'[q][l].status = "scored"
             /\ answer'[q][l].status \in {"scored", "cached"} =>
                  answer'[q][l].analysis \in genuine' /\ answer'[q][l].analysis.id = Id(q, l)
  <2>1. CASE <<q, l>> = <<p, k>>
    BY <1>1, <2>1
  <2>2. CASE <<q, l>> # <<p, k>>
    BY <1>1, <2>2 DEF Inv, GenuineInv
  <2> QED
    BY <2>1, <2>2
<1>3. \A q \in Process, l \in Key : Id(q, l)' = Id(q, l)
  BY DEF Id
<1> QED
  BY <1>2, <1>3 DEF GenuineInv

\* Every step of a goroutine preserves GenuineInv.
LEMMA GenuineGoroutine ==
  ASSUME Inv, NEW p \in Process, NEW k \in KeysOf(p), Goroutine(p, k)
  PROVE  GenuineInv'
<1>1. k \in Key /\ Id(p, k) \in Identity /\ CacheKey(p, k) = Id(p, k)
  BY KeyFacts, IdType
<1>2. answer \in [Process -> [Key -> Answer]] /\ cache \in [Identity -> Entry]
      /\ pc \in [Process -> [Key -> PcStates]]
  BY DEF Inv, TypeOK, PcStates
<1>3. ASSUME NEW v \in PcStates, pc' = [pc EXCEPT ![p][k] = v]
      PROVE  pc'[p][k] = v
  BY <1>1, <1>2, <1>3
<1>4. ASSUME NEW r, answer' = [answer EXCEPT ![p][k] = r]
      PROVE  /\ answer'[p][k] = r
             /\ \A q \in Process, l \in Key : <<q, l>> # <<p, k>> => answer'[q][l] = answer[q][l]
  BY <1>1, <1>2, <1>4, OthersKept
<1>5. CASE LookupHit(p, k)
  <2>1. cache[Id(p, k)].analysis \in genuine /\ cache[Id(p, k)].analysis.id = Id(p, k)
    BY <1>1, <1>5 DEF LookupHit, Hit, Inv, GenuineInv
  <2>2. pc'[p][k] = "record"
    BY <1>3, <1>5 DEF LookupHit, PcStates
  <2>3. /\ answer' = [answer EXCEPT ![p][k] =
             [status |-> "cached", analysis |-> cache[Id(p, k)].analysis]]
        /\ UNCHANGED <<cache, genuine>>
    BY <1>1, <1>5 DEF LookupHit
  <2>4. /\ answer'[p][k] = [status |-> "cached", analysis |-> cache[Id(p, k)].analysis]
        /\ \A q \in Process, l \in Key : <<q, l>> # <<p, k>> => answer'[q][l] = answer[q][l]
    BY <1>4, <2>3
  <2> QED
    BY <2>1, <2>2, <2>3, <2>4, GenuineGlue DEF Inv, GenuineInv
<1>6. CASE LookupMiss(p, k)
  <2>1. pc'[p][k] = "score" /\ UNCHANGED <<answer, cache, genuine>> /\ pc[p][k] = "lookup"
    BY <1>3, <1>6 DEF LookupMiss, PcStates
  <2>2. answer[p][k].status = "none"
    BY <1>1, <2>1 DEF Inv, GenuineInv
  <2> QED
    BY <2>1, <2>2, GenuineGlue DEF Inv, GenuineInv
<1>7. CASE Score(p, k)
  <2>1. PICK n \in FindingCounts :
          /\ answer' = [answer EXCEPT ![p][k] =
               [status |-> "scored", analysis |-> [id |-> Id(p, k), findings |-> n]]]
          /\ genuine' = genuine \union {[id |-> Id(p, k), findings |-> n]}
    BY <1>7 DEF Score
  <2>2. pc'[p][k] \in {"truncate", "record"} /\ cache' = cache
    BY <1>3, <1>7 DEF Score, PcStates
  <2>3. /\ answer'[p][k] =
             [status |-> "scored", analysis |-> [id |-> Id(p, k), findings |-> n]]
        /\ \A q \in Process, l \in Key : <<q, l>> # <<p, k>> => answer'[q][l] = answer[q][l]
    BY <1>4, <2>1
  <2> QED
    BY <2>1, <2>2, <2>3, GenuineGlue DEF Inv, GenuineInv
<1>8. CASE ScoreFails(p, k)
  <2>1. pc'[p][k] = "record" /\ UNCHANGED <<cache, genuine>>
    BY <1>3, <1>8 DEF ScoreFails, PcStates
  <2>2. /\ answer'[p][k] = [status |-> "failed"]
        /\ \A q \in Process, l \in Key : <<q, l>> # <<p, k>> => answer'[q][l] = answer[q][l]
    BY <1>4, <1>8 DEF ScoreFails
  <2> QED
    BY <2>1, <2>2, GenuineGlue DEF Inv, GenuineInv
<1>9. ASSUME Truncate(p, k) \/ Write(p, k) \/ PutFails(p, k)
      PROVE  /\ pc'[p][k] \in {"write", "record"} /\ UNCHANGED <<answer, genuine>>
             /\ answer[p][k].status = "scored"
             /\ answer[p][k].analysis \in genuine /\ answer[p][k].analysis.id = Id(p, k)
  <2>1. pc[p][k] \in {"truncate", "write"} /\ UNCHANGED <<answer, genuine>>
    BY <1>9 DEF Truncate, Write, PutFails
  <2>2. pc'[p][k] \in {"write", "record"}
    BY <1>3, <1>9 DEF Truncate, Write, PutFails, PcStates
  <2>3. answer[p][k].status = "scored"
    BY <1>1, <2>1 DEF Inv, GenuineInv
  <2> QED
    BY <1>1, <2>1, <2>2, <2>3 DEF Inv, GenuineInv
<1>10. CASE Truncate(p, k)
  <2>1. cache' = [cache EXCEPT ![Id(p, k)] = [state |-> "empty"]]
    BY <1>1, <1>10 DEF Truncate
  <2>2. \A id \in Identity : cache'[id].state = "saved" => cache'[id] = cache[id]
    BY <1>1, <1>2, <2>1
  <2> QED
    BY <1>9, <1>10, <2>2, GenuineGlue DEF Inv, GenuineInv
<1>11. CASE Write(p, k)
  <2>1. PICK e : /\ \/ e = [state |-> "saved", analysis |-> answer[p][k].analysis,
                            savedAt |-> clock]
                    \/ e = [state |-> "torn"]
                 /\ cache' = [cache EXCEPT ![Id(p, k)] = e]
    BY <1>1, <1>11 DEF Write
  <2>2. \A id \in Identity : cache'[id] = IF id = Id(p, k) THEN e ELSE cache[id]
    BY <1>1, <1>2, <2>1
  <2>3. \A id \in Identity : cache'[id].state = "saved" =>
          cache'[id].analysis \in genuine /\ cache'[id].analysis.id = id
    <3> SUFFICES ASSUME NEW id \in Identity, cache'[id].state = "saved"
                 PROVE  cache'[id].analysis \in genuine /\ cache'[id].analysis.id = id
      OBVIOUS
    <3>1. CASE id = Id(p, k)
      BY <1>9, <1>11, <2>1, <2>2, <3>1
    <3>2. CASE id # Id(p, k)
      BY <2>2, <3>2 DEF Inv, GenuineInv
    <3> QED
      BY <3>1, <3>2
  <2> QED
    BY <1>9, <1>11, <2>3, GenuineGlue DEF Inv, GenuineInv
<1>12. CASE PutFails(p, k)
  <2>1. \/ cache' = [cache EXCEPT ![Id(p, k)] = [state |-> "torn"]]
        \/ cache' = cache
    BY <1>1, <1>12 DEF PutFails
  <2>2. \A id \in Identity : cache'[id].state = "saved" => cache'[id] = cache[id]
    BY <1>1, <1>2, <2>1
  <2> QED
    BY <1>9, <1>12, <2>2, GenuineGlue DEF Inv, GenuineInv
<1>13. CASE Record(p, k)
  <2>1. pc'[p][k] = "done" /\ UNCHANGED <<answer, cache, genuine>> /\ pc[p][k] = "record"
    BY <1>3, <1>13 DEF Record, PcStates
  <2>2. answer[p][k].status # "none"
    BY <1>1, <2>1 DEF Inv, GenuineInv
  <2> QED
    BY <1>1, <2>1, <2>2, GenuineGlue DEF Inv, GenuineInv
<1> QED
  BY <1>5, <1>6, <1>7, <1>8, <1>10, <1>11, <1>12, <1>13 DEF Goroutine

\* Every step preserves GenuineInv.
LEMMA GenuineNext == Inv /\ [Next]_vars => GenuineInv'
<1> SUFFICES ASSUME Inv, [Next]_vars PROVE GenuineInv'
  OBVIOUS
<1>1. ASSUME NEW p \in Process, NEW k \in KeysOf(p), Goroutine(p, k)
      PROVE  GenuineInv'
  BY <1>1, GenuineGoroutine
<1>2. ASSUME NEW p \in Process, Launch(p)
      PROVE  GenuineInv'
  <2> DEFINE k == Keys[p][launched[p] + 1]
  <2>1. launched[p] + 1 \in DOMAIN Keys[p] /\ launched[p] + 1 > launched[p]
    BY <1>2, KeyFacts DEF Launch, Inv, TypeOK
  <2>2. k \in Key /\ pc[p][k] = "idle"
    BY <2>1, KeyFacts DEF Inv, LoopInv
  <2>3. PICK v \in {"lookup", "score"} : pc' = [pc EXCEPT ![p][k] = v]
    BY <1>2 DEF Launch
  <2>4. pc \in [Process -> [Key -> PcStates]]
    BY DEF Inv, TypeOK, PcStates
  <2>5. /\ pc'[p][k] = v
        /\ \A q \in Process, l \in Key : <<q, l>> # <<p, k>> => pc'[q][l] = pc[q][l]
    BY <2>2, <2>3, <2>4, OthersKept
  <2>6. UNCHANGED <<answer, cache, genuine>>
    BY <1>2 DEF Launch
  <2>7. \A q \in Process, l \in Key :
          \/ pc'[q][l] = pc[q][l]
          \/ pc'[q][l] \in {"lookup", "score"} /\ pc[q][l] = "idle"
    BY <2>2, <2>5
  <2>8. \A q \in Process, l \in Key : Id(q, l)' = Id(q, l)
    BY DEF Id
  <2> QED
    BY <2>6, <2>7, <2>8 DEF Inv, GenuineInv
<1>3. CASE \/ \E p \in Process : Return(p) \/ Crash(p)
           \/ Tick
           \/ UNCHANGED vars
  <2>1. UNCHANGED <<pc, answer, cache, genuine>>
    BY <1>3 DEF Return, Crash, Tick, vars
  <2> QED
    BY <2>1 DEF Inv, GenuineInv, Id
<1> QED
  BY <1>1, <1>2, <1>3 DEF Next, Main, Stopped

-----------------------------------------------------------------------------
(* The results. *)

\* There are no results at first.
LEMMA ResultsInit == Init => ResultsInv
<1> SUFFICES ASSUME Init, NEW p \in Process
             PROVE  DOMAIN results[p] = {} /\ \A k \in KeysOf(p) : pc[p][k] # "done"
  BY DEF ResultsInv
<1> QED
  BY KeyFacts DEF Init

\* A step that records nothing leaves results and done goroutines alone.
LEMMA ResultsKept ==
  ASSUME Inv, UNCHANGED results,
         \A q \in Process, l \in Key : pc'[q][l] = "done" <=> pc[q][l] = "done"
  PROVE  ResultsInv'
<1>1. \A q \in Process : \A i \in DOMAIN results[q] : results[q][i].key \in KeysOf(q)
  BY DEF Inv, ResultsInv
<1>2. \A q \in Process : KeysOf(q) \subseteq Key
  BY KeyFacts
<1> QED
  BY <1>1, <1>2 DEF Inv, ResultsInv

\* Recording adds the key of its goroutine, which had no result.
LEMMA ResultsRecord ==
  ASSUME Inv, NEW p \in Process, NEW k \in KeysOf(p), Record(p, k)
  PROVE  ResultsInv'
<1> DEFINE r == [key |-> k, answer |-> answer[p][k]]
           n == Len(results[p])
           R == [key : Key, answer : Answer]
<1>1. /\ k \in Key /\ pc[p][k] # "done" /\ pc'[p][k] = "done"
      /\ \A q \in Process, l \in Key : <<q, l>> # <<p, k>> => pc'[q][l] = pc[q][l]
  BY GoroutineStep DEF Goroutine, Inv
<1>2. results \in [Process -> Seq(R)] /\ r \in R
  BY <1>1 DEF Inv, TypeOK
<1>3. r.key = k
  OBVIOUS
<1> HIDE DEF r, R
<1>4. results' = [results EXCEPT ![p] = Append(results[p], r)]
  BY DEF Record, r
<1>5. results'[p] = Append(results[p], r) /\ \A q \in Process : q # p => results'[q] = results[q]
  BY <1>2, <1>4
<1>6. /\ n \in Nat /\ DOMAIN results[p] = 1 .. n /\ DOMAIN results'[p] = 1 .. n + 1
      /\ \A i \in 1 .. n : results'[p][i] = results[p][i]
      /\ results'[p][n + 1] = r
  BY <1>2, <1>5
<1>7. \A i \in DOMAIN results[p] : results[p][i].key # k
  BY <1>1 DEF Inv, ResultsInv
<1>8. \A l \in KeysOf(p) : l \in Key /\ (l # k => pc'[p][l] = pc[p][l])
  BY <1>1, KeyFacts
<1>9. /\ \A i \in DOMAIN results'[p] :
           results'[p][i].key \in KeysOf(p) /\ pc'[p][results'[p][i].key] = "done"
      /\ \A i, j \in DOMAIN results'[p] : results'[p][i].key = results'[p][j].key => i = j
      /\ \A l \in KeysOf(p) : pc'[p][l] = "done" =>
           \E i \in DOMAIN results'[p] : results'[p][i].key = l
  <2>1. \A i \in 1 .. n : /\ results'[p][i].key \in KeysOf(p) \ {k}
                          /\ pc'[p][results'[p][i].key] = "done"
    BY <1>6, <1>7, <1>8 DEF Inv, ResultsInv
  <2>2. \A i, j \in 1 .. n : results'[p][i].key = results'[p][j].key => i = j
    BY <1>6 DEF Inv, ResultsInv
  <2>3. ASSUME NEW l \in KeysOf(p), pc'[p][l] = "done"
        PROVE  \E i \in 1 .. n + 1 : results'[p][i].key = l
    <3>1. CASE l = k
      BY <1>3, <1>6, <3>1
    <3>2. CASE l # k
      <4>1. \E i \in 1 .. n : results[p][i].key = l
        BY <1>6, <1>8, <2>3, <3>2 DEF Inv, ResultsInv
      <4> QED
        BY <1>6, <4>1
    <3> QED
      BY <3>1, <3>2
  <2>4. \A i \in 1 .. n + 1 : i \in 1 .. n \/ i = n + 1
    BY <1>6
  <2> QED
    BY <1>1, <1>3, <1>6, <2>1, <2>2, <2>3, <2>4
<1>10. ASSUME NEW q \in Process, q # p
       PROVE  /\ results'[q] = results[q]
              /\ \A l \in Key : pc'[q][l] = pc[q][l]
  BY <1>1, <1>5, <1>10
<1>11. \A q \in Process : KeysOf(q) \subseteq Key
  BY KeyFacts
<1> QED
  BY <1>9, <1>10, <1>11 DEF Inv, ResultsInv

\* Every step preserves ResultsInv.
LEMMA ResultsNext == Inv /\ [Next]_vars => ResultsInv'
<1> SUFFICES ASSUME Inv, [Next]_vars PROVE ResultsInv'
  OBVIOUS
<1>1. ASSUME NEW p \in Process, NEW k \in KeysOf(p), Goroutine(p, k), ~ Record(p, k)
      PROVE  ResultsInv'
  <2>1. UNCHANGED results
    BY <1>1 DEF Goroutine, LookupHit, LookupMiss, Score, ScoreFails, Truncate, Write,
                PutFails
  <2>2. \A q \in Process, l \in Key : pc'[q][l] = "done" <=> pc[q][l] = "done"
    BY <1>1, GoroutineStep DEF Inv
  <2> QED
    BY <2>1, <2>2, ResultsKept
<1>2. ASSUME NEW p \in Process, NEW k \in KeysOf(p), Record(p, k)
      PROVE  ResultsInv'
  BY <1>2, ResultsRecord
<1>3. ASSUME NEW p \in Process, Launch(p)
      PROVE  ResultsInv'
  <2> DEFINE k == Keys[p][launched[p] + 1]
  <2>1. launched[p] + 1 \in DOMAIN Keys[p] /\ launched[p] + 1 > launched[p]
    BY <1>3, KeyFacts DEF Launch, Inv, TypeOK
  <2>2. k \in Key /\ pc[p][k] = "idle"
    BY <2>1, KeyFacts DEF Inv, LoopInv
  <2>3. PICK v \in {"lookup", "score"} : pc' = [pc EXCEPT ![p][k] = v]
    BY <1>3 DEF Launch
  <2>4. pc \in [Process -> [Key -> PcStates]]
    BY DEF Inv, TypeOK, PcStates
  <2>5. /\ pc'[p][k] = v
        /\ \A q \in Process, l \in Key : <<q, l>> # <<p, k>> => pc'[q][l] = pc[q][l]
    BY <2>2, <2>3, <2>4, OthersKept
  <2>6. \A q \in Process, l \in Key : pc'[q][l] = "done" <=> pc[q][l] = "done"
    BY <2>2, <2>5
  <2> QED
    BY <1>3, <2>6, ResultsKept DEF Launch
<1>4. CASE \/ \E p \in Process : Return(p) \/ Crash(p)
           \/ Tick
           \/ UNCHANGED vars
  <2>1. UNCHANGED <<pc, results>>
    BY <1>4 DEF Return, Crash, Tick, vars
  <2> QED
    BY <2>1, ResultsKept
<1> QED
  BY <1>1, <1>2, <1>3, <1>4 DEF Next, Main, Stopped

-----------------------------------------------------------------------------
(* The totals. *)

\* The places of the results whose answer has one of the given statuses.
Places(rs, S) == {i \in DOMAIN rs : rs[i].answer.status \in S}

AnyStatus == {"none", "failed", "scored", "cached"}

Result == [key : Key, answer : Answer]

\* A run's totals agree with its results.
Agree(rs, t) ==
  /\ t.failed = Cardinality(Places(rs, {"failed"}))
  /\ t.scored = Cardinality(Places(rs, AnyStatus \ {"failed"}))
  /\ t.cached = Cardinality(Places(rs, {"cached"}))
  /\ AddsUpTo(rs, t.findings)

EachAgrees == \A p \in Process : Agree(results[p], totals[p])

\* TotalsMatchReport counts the places of the results by their status.
LEMMA CountedPlaces == TypeOK => (TotalsMatchReport <=> EachAgrees)
<1> SUFFICES ASSUME TypeOK, NEW p \in Process
             PROVE  /\ Failures(p) = Places(results[p], {"failed"})
                    /\ Analyses(p) = Places(results[p], AnyStatus \ {"failed"})
                    /\ {i \in Analyses(p) : results[p][i].answer.status = "cached"}
                         = Places(results[p], {"cached"})
  BY DEF TotalsMatchReport, EachAgrees, Agree
<1>1. \A i \in DOMAIN results[p] : results[p][i].answer.status \in AnyStatus
  <2>1. results[p] \in Seq(Result)
    BY DEF TypeOK, Result
  <2>2. \A r \in Result : r.answer.status \in AnyStatus
    BY DEF Result, Answer, AnyStatus
  <2>3. \A i \in DOMAIN results[p] : results[p][i] \in Result
    BY <2>1
  <2> QED
    BY <2>2, <2>3
<1> QED
  BY <1>1 DEF Failures, Analyses, Places, AnyStatus

\* Appending a result adds one place for each condition it satisfies.
LEMMA PlacesAppend ==
  ASSUME NEW rs \in Seq(Result), NEW r \in Result, NEW S
  PROVE  /\ Cardinality(Places(rs, S)) \in Nat
         /\ Cardinality(Places(Append(rs, r), S)) =
              IF r.answer.status \in S THEN Cardinality(Places(rs, S)) + 1
              ELSE Cardinality(Places(rs, S))
<1> DEFINE n == Len(rs)
<1>1. /\ n \in Nat /\ DOMAIN rs = 1 .. n /\ DOMAIN Append(rs, r) = 1 .. n + 1
      /\ \A i \in 1 .. n : Append(rs, r)[i] = rs[i]
      /\ Append(rs, r)[n + 1] = r
  OBVIOUS
<1>2. IsFiniteSet(Places(rs, S))
  <2>1. IsFiniteSet(1 .. n)
    BY <1>1, FS_Interval
  <2>2. Places(rs, S) \subseteq 1 .. n
    BY <1>1 DEF Places
  <2> QED
    BY <2>1, <2>2, FS_Subset
<1>3. n + 1 \notin Places(rs, S)
  BY <1>1 DEF Places
<1>4. Places(Append(rs, r), S) =
        IF r.answer.status \in S THEN Places(rs, S) \union {n + 1} ELSE Places(rs, S)
  <2>1. \A i : i \in 1 .. n + 1 <=> i \in 1 .. n \/ i = n + 1
    BY <1>1
  <2> QED
    BY <1>1, <2>1 DEF Places
<1>5. Cardinality(Places(rs, S)) \in Nat
  BY <1>2, FS_CardinalityType
<1>6. Cardinality(Places(rs, S) \union {n + 1}) = Cardinality(Places(rs, S)) + 1
  BY <1>2, <1>3, FS_AddElement
<1> QED
  BY <1>4, <1>5, <1>6

\* Appending a result adds its findings to the sum.
LEMMA SumAppend ==
  ASSUME NEW rs \in Seq(Result), NEW r \in Result, NEW total \in Nat,
         AddsUpTo(rs, total), FindingsOf(r) \in Nat
  PROVE  AddsUpTo(Append(rs, r), total + FindingsOf(r))
<1> DEFINE n == Len(rs)
           more == total + FindingsOf(r)
<1>1. /\ n \in Nat /\ DOMAIN rs = 1 .. n
      /\ DOMAIN Append(rs, r) = 1 .. n + 1 /\ Len(Append(rs, r)) = n + 1
      /\ \A i \in 1 .. n : Append(rs, r)[i] = rs[i]
      /\ Append(rs, r)[n + 1] = r
  OBVIOUS
<1>2. PICK sum \in [0 .. n -> 0 .. total] :
        /\ sum[0] = 0 /\ sum[n] = total
        /\ \A i \in 1 .. n : sum[i] = sum[i - 1] + FindingsOf(rs[i])
  BY <1>1 DEF AddsUpTo
<1> DEFINE next == [i \in 0 .. n + 1 |-> IF i = n + 1 THEN more ELSE sum[i]]
<1>3. next \in [0 .. n + 1 -> 0 .. more]
  BY <1>1
<1>4. /\ next[0] = 0 /\ next[n + 1] = more
      /\ \A i \in 0 .. n : next[i] = sum[i]
  BY <1>1, <1>2
<1>5. ASSUME NEW i \in 1 .. n + 1
      PROVE  next[i] = next[i - 1] + FindingsOf(Append(rs, r)[i])
  <2> HIDE DEF next
  <2>1. CASE i = n + 1
    BY <1>1, <1>2, <1>4, <2>1
  <2>2. CASE i # n + 1
    <3>1. i \in 1 .. n /\ i \in 0 .. n /\ i - 1 \in 0 .. n
      BY <1>1, <2>2
    <3> QED
      BY <1>1, <1>2, <1>4, <3>1
  <2> QED
    BY <2>1, <2>2
<1> HIDE DEF next, more
<1>6. AddsUpTo(Append(rs, r), more)
  BY <1>1, <1>3, <1>4, <1>5 DEF AddsUpTo
<1> QED
  BY <1>6 DEF more

\* No result, no totals.
LEMMA TotalsInit == Init => EachAgrees
<1> SUFFICES ASSUME Init, NEW p \in Process PROVE Agree(results[p], totals[p])
  BY DEF EachAgrees
<1>1. /\ results[p] = <<>>
      /\ totals[p] = [scored |-> 0, failed |-> 0, cached |-> 0, findings |-> 0]
  BY DEF Init
<1>2. Len(results[p]) = 0 /\ DOMAIN results[p] = {}
  BY <1>1
<1>3. AddsUpTo(results[p], 0)
  <2> DEFINE sum == [i \in 0 .. 0 |-> 0]
  <2>1. sum \in [0 .. 0 -> 0 .. 0] /\ sum[0] = 0
    OBVIOUS
  <2> QED
    BY <1>2, <2>1 DEF AddsUpTo
<1>4. \A S : Places(results[p], S) = {}
  BY <1>2 DEF Places
<1>5. \A S : Cardinality(Places(results[p], S)) = 0
  BY <1>4, FS_EmptySet
<1> QED
  BY <1>1, <1>3, <1>5 DEF Agree

\* A result is recorded and counted in one critical section.
LEMMA TotalsRecord ==
  ASSUME Inv, EachAgrees, NEW p \in Process, NEW k \in KeysOf(p), Record(p, k)
  PROVE  EachAgrees'
<1> DEFINE r == [key |-> k, answer |-> answer[p][k]]
           t == totals[p]
<1>1. k \in Key /\ answer[p][k] \in Answer /\ r \in Result /\ t \in Totals
  BY KeyFacts DEF Inv, TypeOK, Result
<1>2. answer[p][k].status \in {"failed", "scored", "cached"}
  BY <1>1 DEF Record, Inv, GenuineInv, Answer
<1>3. FindingsOf(r) \in Nat
  <2>1. CASE answer[p][k].status = "failed"
    BY <2>1 DEF FindingsOf
  <2>2. CASE answer[p][k].status # "failed"
    <3>1. answer[p][k] \in [status : {"scored", "cached"}, analysis : Analysis]
      BY <1>1, <1>2, <2>2 DEF Answer
    <3> QED
      BY <2>2, <3>1, ScoringAssumption DEF FindingsOf, Analysis
  <2> QED
    BY <2>1, <2>2
<1>4. /\ results'[p] = Append(results[p], r)
      /\ totals'[p] = Count(t, r.answer)
      /\ \A q \in Process : q # p => results'[q] = results[q] /\ totals'[q] = totals[q]
  BY DEF Record, Inv, TypeOK
<1>5. /\ Count(t, r.answer).failed =
           IF r.answer.status \in {"failed"} THEN t.failed + 1 ELSE t.failed
      /\ Count(t, r.answer).scored =
           IF r.answer.status \in AnyStatus \ {"failed"} THEN t.scored + 1 ELSE t.scored
      /\ Count(t, r.answer).cached =
           IF r.answer.status \in {"cached"} THEN t.cached + 1 ELSE t.cached
      /\ Count(t, r.answer).findings = t.findings + FindingsOf(r)
  BY <1>1, <1>2 DEF Count, Totals, AnyStatus, FindingsOf
<1>6. results[p] \in Seq(Result)
  BY DEF Inv, TypeOK, Result
<1> HIDE DEF r, t
<1>7. /\ t.failed = Cardinality(Places(results[p], {"failed"}))
      /\ t.scored = Cardinality(Places(results[p], AnyStatus \ {"failed"}))
      /\ t.cached = Cardinality(Places(results[p], {"cached"}))
      /\ AddsUpTo(results[p], t.findings) /\ t.findings \in Nat
  BY <1>1 DEF EachAgrees, Agree, Totals, t
<1>8. /\ totals'[p].failed = Cardinality(Places(results'[p], {"failed"}))
      /\ totals'[p].scored = Cardinality(Places(results'[p], AnyStatus \ {"failed"}))
      /\ totals'[p].cached = Cardinality(Places(results'[p], {"cached"}))
  BY <1>1, <1>4, <1>5, <1>6, <1>7, PlacesAppend
<1>9. AddsUpTo(results'[p], totals'[p].findings)
  BY <1>1, <1>3, <1>4, <1>5, <1>6, <1>7, SumAppend
<1>10. Agree(results'[p], totals'[p])
  BY <1>8, <1>9 DEF Agree
<1> QED
  BY <1>4, <1>10 DEF EachAgrees

\* Every step preserves the agreement of the totals with the results.
LEMMA TotalsNext == Inv /\ [Next]_vars /\ EachAgrees => EachAgrees'
<1> SUFFICES ASSUME Inv, [Next]_vars, EachAgrees PROVE EachAgrees'
  OBVIOUS
<1>1. ASSUME NEW p \in Process, NEW k \in KeysOf(p), Record(p, k)
      PROVE  EachAgrees'
  BY <1>1, TotalsRecord
<1>2. ASSUME NEW p \in Process, NEW k \in KeysOf(p), Goroutine(p, k), ~ Record(p, k)
      PROVE  UNCHANGED <<results, totals>>
  BY <1>2 DEF Goroutine, LookupHit, LookupMiss, Score, ScoreFails, Truncate, Write,
              PutFails
<1>3. CASE \/ \E p \in Process : Main(p) \/ Crash(p)
           \/ Tick
           \/ UNCHANGED vars
  BY <1>3 DEF Main, Launch, Return, Crash, Tick, vars, EachAgrees
<1>4. UNCHANGED <<results, totals>> => EachAgrees'
  BY DEF EachAgrees
<1> QED
  BY <1>1, <1>2, <1>3, <1>4 DEF Next, Stopped

-----------------------------------------------------------------------------
(* The theorems. *)

\* The inductive invariant holds throughout every execution.
THEOREM Invariance == Spec => []Inv
<1>1. Init => Inv
  BY TypeInit, LoopInit, GenuineInit, ResultsInit DEF Inv
<1>2. Inv /\ [Next]_vars => Inv'
  BY TypeNext, LoopNext, GenuineNext, ResultsNext DEF Inv
<1> QED
  BY <1>1, <1>2, PTL DEF Spec

\* Every variable keeps its type.
THEOREM TypeCorrect == Spec => []TypeOK
<1>1. Inv => TypeOK
  BY DEF Inv
<1> QED
  BY <1>1, Invariance, PTL

\* A run that returns has one result for each of its keys, for any number of
\* jobs, any failures and any interleaving with other runs.
THEOREM ReportsAreComplete == Spec => []EveryKeyReportedOnce
<1>1. Inv => EveryKeyReportedOnce
  <2> SUFFICES ASSUME Inv, NEW p \in Process, phase[p] = "returned"
               PROVE  /\ \A k \in KeysOf(p) : \E i \in DOMAIN results[p] :
                           \A j \in DOMAIN results[p] : results[p][j].key = k <=> j = i
                      /\ \A i \in DOMAIN results[p] : results[p][i].key \in KeysOf(p)
    BY DEF EveryKeyReportedOnce
  <2>1. \A k \in KeysOf(p) : pc[p][k] = "done"
    BY DEF Inv, LoopInv
  <2> QED
    BY <2>1 DEF Inv, ResultsInv
<1> QED
  BY <1>1, Invariance, PTL

\* The totals a run prints are those of its results at every moment: failures,
\* analyses, the cached among them, and the sum of their findings, for any
\* number of jobs and any order in which the goroutines end.
THEOREM TotalsAgree == Spec => []TotalsMatchReport
<1>1. Spec => []EachAgrees
  BY TotalsInit, TotalsNext, Invariance, PTL DEF Spec
<1> QED
  BY <1>1, TypeCorrect, CountedPlaces, PTL

-----------------------------------------------------------------------------
(* The refinement. *)

\* The report, as a function of the program's state.
Report == [p \in Process |-> [k \in Key |->
             IF pc[p][k] = "done" THEN Reported(answer[p][k]) ELSE [status |-> "none"]]]

\* A step that leaves the done goroutines and their answers alone is invisible
\* in the report.
LEMMA ReportKept ==
  ASSUME \A p \in Process, k \in Key :
           /\ pc'[p][k] = "done" <=> pc[p][k] = "done"
           /\ pc[p][k] = "done" => answer'[p][k] = answer[p][k]
  PROVE  Report' = Report
BY DEF Report, Reported

\* A goroutine's step produces an analysis, answers its key, or is invisible.
LEMMA RefinesGoroutine ==
  ASSUME Inv, NEW p \in Process, NEW k \in KeysOf(p), Goroutine(p, k)
  PROVE  Contract!CNext \/ UNCHANGED Contract!cvars
<1>1. /\ k \in Key /\ phase[p] = "running" /\ phase' = phase
      /\ \A q \in Process, l \in Key : <<q, l>> # <<p, k>> => pc'[q][l] = pc[q][l]
      /\ pc[p][k] # "done" /\ ((pc'[p][k] = "done") <=> Record(p, k))
  BY GoroutineStep DEF Inv
<1>2. \A q \in Process, l \in Key : <<q, l>> # <<p, k>> => answer'[q][l] = answer[q][l]
  <2>1. \E r : answer' = [answer EXCEPT ![p][k] = r] \/ answer' = answer
    BY DEF Goroutine, LookupHit, LookupMiss, Score, ScoreFails, Truncate, Write,
           PutFails, Record
  <2>2. answer \in [Process -> [Key -> Answer]]
    BY DEF Inv, TypeOK
  <2> QED
    BY <1>1, <2>1, <2>2, OthersKept
<1>3. CASE Record(p, k)
  <2>1. UNCHANGED <<answer, genuine>> /\ pc'[p][k] = "done" /\ pc[p][k] = "record"
    BY <1>1, <1>3 DEF Record
  <2>2. Report[p][k] = [status |-> "none"]
    BY <1>1 DEF Report
  <2>3. Report' = [Report EXCEPT ![p][k] = Reported(answer[p][k])]
    <3>1. \A q \in Process, l \in Key : <<q, l>> # <<p, k>> => Report'[q][l] = Report[q][l]
      BY <1>1, <1>2 DEF Report, Reported
    <3>2. Report'[p][k] = Reported(answer[p][k])
      BY <1>1, <2>1 DEF Report, Reported
    <3>3. \A q \in Process : Report'[q] = [l \in Key |->
            IF <<q, l>> = <<p, k>> THEN Reported(answer[p][k]) ELSE Report[q][l]]
      <4> SUFFICES ASSUME NEW q \in Process
                   PROVE  Report'[q] = [l \in Key |->
                     IF <<q, l>> = <<p, k>> THEN Reported(answer[p][k]) ELSE Report[q][l]]
        OBVIOUS
      <4>1. Report'[q] = [l \in Key |-> Report'[q][l]]
        BY DEF Report
      <4> QED
        BY <1>1, <3>1, <3>2, <4>1
    <3>4. \A q \in Process : Report'[q] =
            IF q = p THEN [Report[q] EXCEPT ![k] = Reported(answer[p][k])] ELSE Report[q]
      <4> SUFFICES ASSUME NEW q \in Process
                   PROVE  Report'[q] =
                     IF q = p THEN [Report[q] EXCEPT ![k] = Reported(answer[p][k])] ELSE Report[q]
        OBVIOUS
      <4>1. Report[q] = [l \in Key |-> Report[q][l]]
        BY DEF Report
      <4> QED
        BY <1>1, <3>3, <4>1
    <3>5. /\ Report = [q \in Process |-> Report[q]]
          /\ Report' = [q \in Process |-> Report'[q]]
      BY DEF Report
    <3> QED
      BY <3>4, <3>5
  <2>4. answer[p][k].status # "none" /\ answer[p][k] \in Answer
    <3>1. answer[p][k] \in Answer
      BY <1>1 DEF Inv, TypeOK
    <3>2. pc[p][k] \notin {"idle", "lookup", "score"}
      BY <2>1
    <3>3. answer[p][k].status # "none"
      BY <1>1, <3>2 DEF Inv, GenuineInv
    <3> QED
      BY <3>1, <3>3
  <2>5. CASE answer[p][k].status = "failed"
    <3>1. Reported(answer[p][k]) = [status |-> "failed"]
      BY <2>5 DEF Reported
    <3> QED
      BY <1>1, <2>1, <2>2, <2>3, <3>1
      DEF Report, Contract!CNext, Contract!Answer, Contract!Unanswered, Contract!FailureReport
  <2>6. CASE answer[p][k].status # "failed"
    <3>1. answer[p][k].status \in {"scored", "cached"}
      BY <2>4, <2>6 DEF Answer
    <3>2. answer[p][k].analysis \in genuine /\ answer[p][k].analysis.id = Id(p, k)
      BY <1>1, <3>1 DEF Inv, GenuineInv
    <3>3. Reported(answer[p][k]) = [status |-> "answered", analysis |-> answer[p][k].analysis]
      BY <3>1 DEF Reported
    <3>4. [q \in Process |-> [l \in Key |-> Id(q, l)]][p][k] = Id(p, k)
      BY <1>1
    <3>5. [q \in Process |-> KeysOf(q)][p] = KeysOf(p)
      OBVIOUS
    <3> DEFINE r == Contract!Answered(answer[p][k].analysis)
    <3>6. r = Reported(answer[p][k])
      BY <3>3 DEF Contract!Answered
    <3>7. r \in {Contract!FailureReport} \union {Contract!Answered(a) : a \in
            {b \in genuine : b.id = [q \in Process |-> [l \in Key |-> Id(q, l)]][p][k]}}
      BY <3>2, <3>4
    <3>8. Report' = [Report EXCEPT ![p][k] = r]
      BY <2>3, <3>6
    <3> HIDE DEF r
    <3>9. Contract!Answer(p, k)
      BY <1>1, <2>1, <2>2, <3>7, <3>8 DEF Report, Contract!Answer, Contract!Unanswered
    <3> QED
      BY <3>5, <3>9 DEF Contract!CNext
  <2> QED
    BY <2>5, <2>6
<1>4. CASE ~ Record(p, k)
  <2>1. Report' = Report
    <3>1. \A q \in Process, l \in Key :
            /\ pc'[q][l] = "done" <=> pc[q][l] = "done"
            /\ pc[q][l] = "done" => answer'[q][l] = answer[q][l]
      BY <1>1, <1>2, <1>4
    <3> QED
      BY <3>1, ReportKept
  <2>2. CASE Score(p, k)
    <3>1. PICK n \in FindingCounts : genuine' = genuine \union {[id |-> Id(p, k), findings |-> n]}
      BY <2>2 DEF Score
    <3>2. [id |-> Id(p, k), findings |-> n] \in Analysis
      BY <1>1, IdType DEF Analysis
    <3> QED
      BY <1>1, <2>1, <3>1, <3>2 DEF Report, Contract!CNext, Contract!Produce
  <2>3. CASE ~ Score(p, k)
    <3>1. genuine' = genuine
      BY <1>4, <2>3 DEF Goroutine, LookupHit, LookupMiss, ScoreFails, Truncate, Write,
                        PutFails
    <3> QED
      BY <1>1, <2>1, <3>1 DEF Report, Contract!cvars
  <2> QED
    BY <2>2, <2>3
<1> QED
  BY <1>3, <1>4

\* Launching a key and the passing of time are invisible; a run returns only
\* when every key is answered.
LEMMA RefinesMain ==
  ASSUME Inv, NEW p \in Process, Launch(p) \/ Return(p) \/ Crash(p)
  PROVE  Contract!CNext \/ UNCHANGED Contract!cvars
<1>1. CASE Launch(p)
  <2> DEFINE k == Keys[p][launched[p] + 1]
  <2>1. launched[p] + 1 \in DOMAIN Keys[p] /\ launched[p] + 1 > launched[p]
    BY <1>1, KeyFacts DEF Launch, Inv, TypeOK
  <2>2. k \in Key /\ pc[p][k] = "idle"
    BY <2>1, KeyFacts DEF Inv, LoopInv
  <2>3. PICK v \in {"lookup", "score"} : pc' = [pc EXCEPT ![p][k] = v]
    BY <1>1 DEF Launch
  <2>4. pc \in [Process -> [Key -> PcStates]]
    BY DEF Inv, TypeOK, PcStates
  <2>5. /\ pc'[p][k] = v
        /\ \A q \in Process, l \in Key : <<q, l>> # <<p, k>> => pc'[q][l] = pc[q][l]
    BY <2>2, <2>3, <2>4, OthersKept
  <2>6. UNCHANGED <<answer, genuine, phase>>
    BY <1>1 DEF Launch
  <2>7. Report' = Report
    BY <2>2, <2>5, <2>6, ReportKept
  <2> QED
    BY <2>6, <2>7 DEF Report, Contract!cvars
<1>2. CASE Return(p) \/ Crash(p)
  <2>1. phase[p] = "running" /\ UNCHANGED <<pc, answer, genuine>>
    BY <1>2 DEF Return, Crash
  <2>2. Report' = Report
    BY <2>1, ReportKept
  <2>3. CASE Return(p)
    <3>1. \A k \in KeysOf(p) : k \in Key /\ pc[p][k] = "done"
      <4>1. launched[p] = Len(Keys[p]) /\ Active(p) = {}
        BY <2>3 DEF Return
      <4>2. \A i \in DOMAIN Keys[p] : ~ (i > launched[p]) /\ Keys[p][i] \in KeysOf(p)
        BY <4>1, KeyFacts
      <4>3. \A i \in DOMAIN Keys[p] : pc[p][Keys[p][i]] = "done"
        BY <4>1, <4>2 DEF Active, Inv, LoopInv
      <4> QED
        BY <4>3, KeyFacts DEF KeysOf
    <3>2. \A k \in KeysOf(p) : Report[p][k] # [status |-> "none"]
      <4> SUFFICES ASSUME NEW k \in KeysOf(p) PROVE Report[p][k].status # "none"
        OBVIOUS
      <4>1. Report[p][k] = Reported(answer[p][k])
        BY <3>1 DEF Report
      <4>2. answer[p][k].status # "none"
        BY <3>1 DEF Inv, GenuineInv
      <4> QED
        BY <4>1, <4>2 DEF Reported
    <3>3. phase' = [phase EXCEPT ![p] = "returned"]
      BY <2>3 DEF Return
    <3>4. [q \in Process |-> KeysOf(q)][p] = KeysOf(p)
      OBVIOUS
    <3> QED
      BY <2>1, <2>2, <3>2, <3>3, <3>4
      DEF Report, Contract!CNext, Contract!Return, Contract!Unanswered
  <2>4. CASE Crash(p)
    BY <2>1, <2>2, <2>4 DEF Crash, Report, Contract!CNext, Contract!Crash
  <2> QED
    BY <1>2, <2>3, <2>4
<1> QED
  BY <1>1, <1>2

\* The audit implements the contract: whatever other runs do to the shared
\* files, a report holds only analyses that scorings of its own identities
\* produced, and every key has an answer when a run returns.
THEOREM AuditImplementsContract == Spec => ImplementsContract
<1>1. Init => Contract!CInit
  <2> SUFFICES ASSUME Init PROVE Contract!CInit
    OBVIOUS
  <2>1. \A p \in Process, k \in Key : pc[p][k] # "done"
    BY DEF Init
  <2> QED
    BY <2>1 DEF Init, Contract!CInit, Contract!Unanswered
<1>2. Inv /\ [Next]_vars => [Contract!CNext]_(Contract!cvars)
  <2> SUFFICES ASSUME Inv, [Next]_vars
               PROVE  Contract!CNext \/ UNCHANGED Contract!cvars
    OBVIOUS
  <2>1. ASSUME NEW p \in Process, NEW k \in KeysOf(p), Goroutine(p, k)
        PROVE  Contract!CNext \/ UNCHANGED Contract!cvars
    BY <2>1, RefinesGoroutine
  <2>2. ASSUME NEW p \in Process, Main(p) \/ Crash(p)
        PROVE  Contract!CNext \/ UNCHANGED Contract!cvars
    BY <2>2, RefinesMain DEF Main
  <2>3. CASE Tick \/ UNCHANGED vars
    <3>1. UNCHANGED <<pc, answer, genuine, phase>>
      BY <2>3 DEF Tick, vars
    <3>2. Report' = Report
      BY <3>1, ReportKept
    <3> QED
      BY <3>1, <3>2 DEF Report, Contract!cvars
  <2> QED
    BY <2>1, <2>2, <2>3 DEF Next, Stopped
<1> QED
  BY <1>1, <1>2, Invariance, PTL DEF Spec, ImplementsContract, Contract!CSpec
=============================================================================
