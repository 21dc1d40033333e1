----------------------------- MODULE GatesProofs -----------------------------
(***************************************************************************)
(* What the operators of Gates return, for any gates, requirements and     *)
(* results.                                                                *)
(***************************************************************************)
EXTENDS Gates, FiniteSetTheorems, SequenceTheorems, WellFoundedInduction, TLAPS

\* Numbers are well-founded: a nonempty set of them has a least element.
LEMMA Least ==
  ASSUME NEW S, S \subseteq Nat, S # {}
  PROVE  \E n \in S : \A m \in S : n <= m
<1> DEFINE R == OpToRel(<, Nat)
<1>1. IsWellFoundedOn(R, Nat)
  BY NatLessThanWellFounded
<1>2. \A m, n \in Nat : <<m, n>> \in R <=> m < n
  BY DEF OpToRel
<1> HIDE DEF R
<1>3. PICK n \in S : \A m \in S : <<m, n>> \notin R
  BY <1>1, WFMin
<1>4. ASSUME NEW m \in S
      PROVE  n <= m
  <2>1. m \in Nat /\ n \in Nat /\ ~(m < n)
    BY <1>2, <1>3
  <2>2. QED
    BY <2>1
<1>5. QED
  BY <1>4

-----------------------------------------------------------------------------
(* The order of the gates *)

\* The numbers of those before i, as Ordered has them.
Before(gates, i, j) ==
  \/ gates[i].order < gates[j].order
  \/ gates[i].order = gates[j].order /\ i < j
Place(gates, i) == Cardinality({j \in DOMAIN gates : Before(gates, j, i)}) + 1

\* The gates before one gate are fewer than the gates, and fewer than those
\* before a later one.
LEMMA PlaceIsMonotone ==
  ASSUME NEW S, NEW gates \in Seq(S),
         \A i \in DOMAIN gates : gates[i].order \in Int
  PROVE  /\ \A i \in DOMAIN gates : Place(gates, i) \in DOMAIN gates
         /\ \A i, k \in DOMAIN gates :
              Before(gates, i, k) => Place(gates, i) < Place(gates, k)
<1> DEFINE D == 1 .. Len(gates)
           Below(i) == {j \in D : Before(gates, j, i)}
<1>1. DOMAIN gates = D /\ Len(gates) \in Nat
  OBVIOUS
<1>2. IsFiniteSet(D) /\ Cardinality(D) = Len(gates)
  <2>1. /\ IsFiniteSet(D)
        /\ Cardinality(D) = IF 1 > Len(gates) THEN 0 ELSE Len(gates) - 1 + 1
    BY <1>1, FS_Interval
  <2>2. QED
    BY <1>1, <2>1
<1>3. \A i \in D : Place(gates, i) = Cardinality(Below(i)) + 1
  BY <1>1 DEF Place
<1>4. ASSUME NEW i \in D
      PROVE  IsFiniteSet(Below(i)) /\ Cardinality(Below(i)) \in Nat
  <2>1. Below(i) \in SUBSET D
    OBVIOUS
  <2>2. IsFiniteSet(Below(i))
    BY <1>2, <2>1, FS_Subset
  <2> HIDE DEF Below
  <2>3. QED
    BY <2>2, FS_CardinalityType
<1>5. ASSUME NEW i \in D
      PROVE  Place(gates, i) \in D
  <2>1. i \notin Below(i)
    <3>1. gates[i].order \in Int /\ i \in Int
      BY <1>1
    <3>2. QED
      BY <3>1 DEF Before
  <2>2. Below(i) \in SUBSET D /\ Below(i) # D
    BY <2>1
  <2> HIDE DEF Below
  <2>3. Cardinality(Below(i)) <= Cardinality(D) /\ Cardinality(Below(i)) # Cardinality(D)
    BY <1>2, <2>2, FS_Subset
  <2>4. QED
    BY <1>1, <1>2, <1>3, <1>4, <2>3
<1>6. ASSUME NEW i \in D, NEW k \in D, Before(gates, i, k)
      PROVE  Place(gates, i) < Place(gates, k)
  <2>1. \A j \in D : gates[j].order \in Int /\ j \in Int
    BY <1>1
  <2>2. i \notin Below(i) /\ i \in Below(k)
    BY <1>6, <2>1 DEF Before
  <2>3. Below(i) \subseteq Below(k)
    BY <1>6, <2>1 DEF Before
  <2>4. Below(i) \in SUBSET Below(k) /\ Below(i) # Below(k)
    BY <2>2, <2>3
  <2> HIDE DEF Below
  <2>5. /\ Cardinality(Below(i)) <= Cardinality(Below(k))
        /\ Cardinality(Below(i)) # Cardinality(Below(k))
    BY <1>4, <2>4, FS_Subset
  <2>6. QED
    BY <1>3, <1>4, <2>5
<1>7. QED
  BY <1>1, <1>5, <1>6

\* The places of the gates are the numbers of the gates, each once.
LEMMA PlaceIsOnto ==
  ASSUME NEW S, NEW gates \in Seq(S),
         \A i \in DOMAIN gates : gates[i].order \in Int
  PROVE  \A n \in DOMAIN gates : \E i \in DOMAIN gates : Place(gates, i) = n
<1> DEFINE D == DOMAIN gates
           f == [i \in D |-> Place(gates, i)]
<1>1. D = 1 .. Len(gates) /\ Len(gates) \in Nat
  OBVIOUS
<1>2. IsFiniteSet(D)
  BY <1>1, FS_Interval
<1>3. \A i \in D : Place(gates, i) \in D
  BY PlaceIsMonotone
<1>4. \A i, k \in D : Before(gates, i, k) => Place(gates, i) < Place(gates, k)
  BY PlaceIsMonotone
<1>5. ASSUME NEW i \in D, NEW k \in D, i # k
      PROVE  Place(gates, i) # Place(gates, k)
  <2>1. i \in Int /\ k \in Int /\ gates[i].order \in Int /\ gates[k].order \in Int
    BY <1>1
  <2>2. Before(gates, i, k) \/ Before(gates, k, i)
    BY <1>5, <2>1 DEF Before
  <2>3. Place(gates, i) \in Int /\ Place(gates, k) \in Int
    BY <1>1, <1>3
  <2>4. QED
    BY <1>4, <2>2, <2>3
<1>6. f \in Injection(D, D)
  BY <1>3, <1>5 DEF Injection, IsInjective
<1>7. f \in Surjection(D, D)
  BY <1>2, <1>6, FS_Injection
<1>8. QED
  BY <1>7 DEF Surjection

\* runGates runs every gate of the task once, in the order of their numbers, and
\* those of equal number as they are listed (gates.js 2813-2818).
THEOREM OrderedIsSorted ==
  ASSUME NEW S, NEW gates \in Seq(S),
         \A i \in DOMAIN gates : gates[i].order \in Int
  PROVE  \E p \in Bijection(DOMAIN gates, DOMAIN gates) :
           /\ Ordered(gates) = [n \in DOMAIN gates |-> gates[p[n]]]
           /\ \A m, n \in DOMAIN gates : m < n => Before(gates, p[m], p[n])
<1> DEFINE D == DOMAIN gates
           p == [n \in D |-> CHOOSE i \in D : Place(gates, i) = n]
<1>1. D = 1 .. Len(gates) /\ Len(gates) \in Nat
  OBVIOUS
<1>2. ASSUME NEW n \in D
      PROVE  p[n] \in D /\ Place(gates, p[n]) = n
  <2>1. \E i \in D : Place(gates, i) = n
    BY PlaceIsOnto
  <2>2. QED
    BY <2>1
<1>3. Ordered(gates) = [n \in D |-> gates[p[n]]]
  BY DEF Ordered, Place, Before
<1> HIDE DEF p
<1>4. p \in [D -> D]
  BY <1>2 DEF p
<1>5. \A m, n \in D : p[m] = p[n] => m = n
  BY <1>2
<1>6. p \in Injection(D, D)
  BY <1>4, <1>5 DEF Injection, IsInjective
<1>7. p \in Surjection(D, D)
  BY <1>1, <1>6, FS_Injection, FS_Interval
<1>8. ASSUME NEW m \in D, NEW n \in D, m < n
      PROVE  Before(gates, p[m], p[n])
  <2>1. p[m] \in D /\ p[n] \in D /\ p[m] # p[n] /\ m \in Int /\ n \in Int
    BY <1>1, <1>2, <1>5, <1>8
  <2>2. /\ p[m] \in Int /\ p[n] \in Int
        /\ gates[p[m]].order \in Int /\ gates[p[n]].order \in Int
    BY <1>1, <2>1
  <2>3. Before(gates, p[m], p[n]) \/ Before(gates, p[n], p[m])
    BY <2>1, <2>2 DEF Before
  <2>4. ~Before(gates, p[n], p[m])
    <3>1. SUFFICES ASSUME Before(gates, p[n], p[m])
                   PROVE  FALSE
      OBVIOUS
    <3>2. Place(gates, p[n]) < Place(gates, p[m])
      BY <2>1, <3>1, PlaceIsMonotone
    <3>3. n < m
      BY <1>2, <3>2
    <3>4. QED
      BY <1>8, <2>1, <3>3
  <2>5. QED
    BY <2>3, <2>4
<1>9. QED
  BY <1>3, <1>6, <1>7, <1>8 DEF Bijection

-----------------------------------------------------------------------------
(* The evidence of a requirement *)

\* FirstOf returns the first result that is one of those, or None without one.
LEMMA FirstOfIsFirst ==
  ASSUME NEW S, NEW results \in Seq(S), NEW those
  PROVE  \/ /\ FirstOf(results, those) = None
            /\ \A i \in DOMAIN results : results[i] \notin those
         \/ \E i \in DOMAIN results :
              /\ FirstOf(results, those) = results[i] /\ results[i] \in those
              /\ \A j \in 1 .. i - 1 : results[j] \notin those
<1> DEFINE I == {i \in 1 .. Len(results) : results[i] \in those}
           place == IF I # {} THEN Min(I) ELSE 0
<1>1. FirstOf(results, those) = IF place = 0 THEN None ELSE results[place]
  BY DEF FirstOf, SelectInSeq
<1>2. DOMAIN results = 1 .. Len(results) /\ Len(results) \in Nat
  OBVIOUS
<1>3. CASE I = {}
  <2>1. \A i \in DOMAIN results : results[i] \notin those
    BY <1>2, <1>3
  <2>2. place = 0
    BY <1>3
  <2> HIDE DEF place
  <2>3. QED
    BY <1>1, <2>1, <2>2
<1>4. CASE I # {}
  <2>1. I \subseteq Nat
    BY <1>2
  <2>2. \E n \in I : \A m \in I : n <= m
    BY <1>4, <2>1, Least
  <2>3. Min(I) \in I /\ \A m \in I : Min(I) <= m
    BY <2>2 DEF Min
  <2>4. place = Min(I)
    BY <1>4
  <2>5. PICK n \in I : n = place /\ \A m \in I : n <= m
    BY <2>3, <2>4
  <2> HIDE DEF place
  <2>6. n \in DOMAIN results /\ n \in Nat /\ n # 0 /\ results[n] \in those
    BY <1>2, <2>5
  <2>7. FirstOf(results, those) = results[n]
    BY <1>1, <2>5, <2>6
  <2>8. ASSUME NEW j \in 1 .. n - 1
        PROVE  results[j] \notin those
    <3>1. j \in 1 .. Len(results) /\ j \in Nat /\ ~(n <= j)
      BY <1>2, <2>5, <2>6
    <3>2. QED
      BY <2>5, <3>1
  <2>9. QED
    BY <2>6, <2>7, <2>8
<1>5. QED
  BY <1>3, <1>4

\* The first result of a name is one of that name, and there is none before it.
LEMMA NamedIsFirst ==
  ASSUME NEW S, NEW prior \in Seq(S), NEW name, FirstNamed(prior, name) # None
  PROVE  \E j \in DOMAIN prior :
           /\ FirstNamed(prior, name) = prior[j] /\ prior[j].name = name
           /\ FirstNamed(SubSeq(prior, 1, j - 1), name) = None
<1> DEFINE those == {r \in ToSet(prior) : r.name = name}
<1>1. PICK j \in DOMAIN prior :
        /\ FirstNamed(prior, name) = prior[j] /\ prior[j] \in those
        /\ \A k \in 1 .. j - 1 : prior[k] \notin those
  BY FirstOfIsFirst DEF FirstNamed
<1> DEFINE prefix == SubSeq(prior, 1, j - 1)
           these == {r \in ToSet(prefix) : r.name = name}
<1>2. j \in 1 .. Len(prior) /\ Len(prior) \in Nat /\ DOMAIN prior = 1 .. Len(prior)
  OBVIOUS
<1>3. prefix \in Seq(S) /\ DOMAIN prefix = 1 .. j - 1
  BY <1>2, SubSeqProperties
<1>4. \A k \in 1 .. j - 1 : prefix[k] = prior[k] /\ k \in DOMAIN prior
  BY <1>2, SubSeqProperties
<1>5. \A k \in DOMAIN prefix : prefix[k] \notin these
  BY <1>1, <1>3, <1>4 DEF ToSet
<1> HIDE DEF prefix, these
<1>6. FirstOf(prefix, these) = None
  BY <1>3, <1>5, FirstOfIsFirst
<1>7. FirstNamed(prefix, name) = None
  BY <1>6 DEF FirstNamed, these
<1>8. QED
  BY <1>1, <1>7 DEF prefix

\* A result is what a requirement asks for: by its name, or by its script.
Meets(result, item) ==
  \/ result.name = item.gate
  \/ item.script # None /\ result.script = item.script
  \/ item.test /\ item.gate = None /\ result.name = "tests"

\* A requirement is bound to a result before it that it asks for; and unless
\* this is evidence by a script, it is the first that could have been meant.
THEOREM BoundIsMeant ==
  ASSUME NEW S, NEW prior \in Seq(S), NEW item, Bound(item, prior) # None
  PROVE  \E j \in DOMAIN prior :
           /\ Bound(item, prior) = prior[j] /\ Meets(prior[j], item)
           /\ prior[j].script = None => Bound(item, SubSeq(prior, 1, j - 1)) = None
<1>1. CASE item.test \/ item.script = None
  <2> DEFINE name == IF item.test /\ item.gate = None THEN "tests" ELSE item.gate
  <2>1. \A p : Bound(item, p) = FirstNamed(p, name)
    BY <1>1 DEF Bound
  <2>2. PICK j \in DOMAIN prior :
          /\ FirstNamed(prior, name) = prior[j] /\ prior[j].name = name
          /\ FirstNamed(SubSeq(prior, 1, j - 1), name) = None
    BY <2>1, NamedIsFirst
  <2>3. Meets(prior[j], item)
    BY <2>2 DEF Meets
  <2> HIDE DEF name
  <2>4. QED
    BY <2>1, <2>2, <2>3
<1>2. CASE ~(item.test \/ item.script = None)
  <2> DEFINE scripted == {r \in ToSet(prior) : r.script = item.script}
             byOracle == FirstOf(prior, {r \in scripted : r.name = "oracle"})
             byScript == FirstOf(prior, scripted)
  <2>1. Bound(item, prior) = IF byOracle # None THEN byOracle
                             ELSE IF item.gate = None THEN byScript
                             ELSE IF FirstNamed(prior, item.gate) \in scripted
                             THEN FirstNamed(prior, item.gate) ELSE None
    BY <1>2 DEF Bound
  <2>2. byOracle # None => byOracle \in scripted
    BY FirstOfIsFirst
  <2>3. byScript # None => byScript \in scripted
    BY FirstOfIsFirst
  <2> HIDE DEF byOracle, byScript
  <2>4. Bound(item, prior) \in scripted
    BY <2>1, <2>2, <2>3
  <2>5. PICK j \in DOMAIN prior :
          Bound(item, prior) = prior[j] /\ prior[j].script = item.script
    BY <2>4 DEF ToSet
  <2>6. QED
    BY <1>2, <2>5 DEF Meets
<1>3. QED
  BY <1>1, <1>2

\* The requirements pass only when each is bound to a required gate that passed.
THEOREM RequirementsAreMet ==
  ASSUME NEW gate, NEW mustHave, NEW prior,
         Passed(Requirements(gate, mustHave, prior)), NEW item \in mustHave
  PROVE  Bound(item, prior) # None /\ Bound(item, prior).required
         /\ Passed(Bound(item, prior))
<1> DEFINE found == {Substantiated(i, prior) : i \in mustHave}
<1>1. "unsatisfied" \notin found /\ "unavailable" \notin found
  BY DEF Passed, Requirements, GateResult
<1>2. Substantiated(item, prior) \notin {"unsatisfied", "unavailable"}
  BY <1>1
<1>3. QED
  BY <1>2 DEF Substantiated

-----------------------------------------------------------------------------
(* The classification *)

\* Of the signals of a trial one has the highest precedence, and it is chosen.
THEOREM HighestIsHighest ==
  ASSUME NEW signals \in SUBSET Verdict
  PROVE  /\ Highest(signals) \in signals \cup {"PASS"}
         /\ \A s \in signals : Precedence[s] <= Precedence[Highest(signals)]
<1> DEFINE Top(s) == \A t \in signals : Precedence[t] <= Precedence[s]
<1>1. signals \subseteq {"TIMEOUT", "INFRA_FAIL", "NO_OP", "FAIL", "PASS"}
  BY DEF Verdict, Signal
<1>2. /\ Precedence["PASS"] = 0 /\ Precedence["FAIL"] = 1 /\ Precedence["NO_OP"] = 2
      /\ Precedence["INFRA_FAIL"] = 3 /\ Precedence["TIMEOUT"] = 4
  BY DEF Precedence
<1>3. CASE "TIMEOUT" \in signals
  <2>1. Top("TIMEOUT")
    BY <1>1, <1>2
  <2>2. QED
    BY <1>3, <2>1 DEF Highest
<1>4. CASE "TIMEOUT" \notin signals /\ "INFRA_FAIL" \in signals
  <2>1. Top("INFRA_FAIL")
    BY <1>1, <1>2, <1>4
  <2>2. QED
    BY <1>4, <2>1 DEF Highest
<1>5. CASE signals \subseteq {"NO_OP", "FAIL", "PASS"} /\ "NO_OP" \in signals
  <2>1. Top("NO_OP")
    BY <1>2, <1>5
  <2>2. QED
    BY <1>5, <2>1 DEF Highest
<1>6. CASE signals \subseteq {"FAIL", "PASS"} /\ "FAIL" \in signals
  <2>1. Top("FAIL")
    BY <1>2, <1>6
  <2>2. QED
    BY <1>6, <2>1 DEF Highest
<1>7. CASE signals \subseteq {"PASS"}
  <2>1. Top("PASS")
    BY <1>2, <1>7
  <2>2. QED
    BY <2>1 DEF Highest
<1>8. QED
  BY <1>1, <1>3, <1>4, <1>5, <1>6, <1>7

\* A trial that counts has no sign of a timeout or of an infrastructure failure,
\* and one that passes none of a failure and a count of changes that is not zero,
\* which an unknown count is not either (classify.js 136-282).
THEOREM ClassifiedByAll ==
  ASSUME NEW inv, NEW unavailable, NEW results, NEW count,
         NEW verdict, verdict = ClassifyTrial(inv, unavailable, results, count),
         verdict \in {"PASS", "FAIL", "NO_OP"}
  PROVE  /\ ~unavailable /\ ~inv.timedOut /\ ~inv.infra
         /\ \A r \in ToSet(results) : r.signal \notin {"TIMEOUT", "INFRA_FAIL"}
         /\ verdict = "PASS" =>
              /\ ~inv.nonzero /\ count # 0
              /\ \A r \in ToSet(results) : r.required => r.signal # "FAIL"
<1> DEFINE signals == Signals(inv, results, count)
<1>1. ~unavailable /\ verdict = Highest(signals)
  BY DEF ClassifyTrial
<1>2. signals \in SUBSET Verdict
  BY DEF Signals
<1>3. \A s \in signals : Precedence[s] <= Precedence[verdict]
  BY <1>1, <1>2, HighestIsHighest
<1>4. /\ Precedence["PASS"] = 0 /\ Precedence["FAIL"] = 1 /\ Precedence["NO_OP"] = 2
      /\ Precedence["INFRA_FAIL"] = 3 /\ Precedence["TIMEOUT"] = 4
  BY DEF Precedence
<1>5. "TIMEOUT" \notin signals /\ "INFRA_FAIL" \notin signals
  BY <1>3, <1>4
<1>6. verdict = "PASS" => "FAIL" \notin signals /\ "NO_OP" \notin signals
  BY <1>3, <1>4
<1>7. {"TIMEOUT", "INFRA_FAIL", "FAIL", "NO_OP"} \subseteq Verdict
  BY DEF Verdict, Signal
<1>8. /\ ~inv.timedOut /\ ~inv.infra
      /\ \A r \in ToSet(results) : r.signal \notin {"TIMEOUT", "INFRA_FAIL"}
  BY <1>5, <1>7 DEF Signals
<1>9. verdict = "PASS" =>
        /\ ~inv.nonzero /\ count # 0
        /\ \A r \in ToSet(results) : r.required => r.signal # "FAIL"
  BY <1>6, <1>7, <1>8 DEF Signals
<1>10. QED
  BY <1>1, <1>8, <1>9

=============================================================================
