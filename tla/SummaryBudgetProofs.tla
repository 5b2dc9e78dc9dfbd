----------------------- MODULE SummaryBudgetProofs -----------------------
(***************************************************************************)
(* What the provider may have charged for bill summaries stays within the  *)
(* budgets, and failed requests within the failure cap, for every number   *)
(* of requests. The model adds up costs with a fold over a set; the first  *)
(* part proves what such a total does when the set or a cost changes, by   *)
(* induction on the size of the set.                                       *)
(***************************************************************************)
EXTENDS SummaryRequestsProofs, FiniteSetTheorems, WellFoundedInduction

----------------------------------------------------------------------------
(* Induction on sets *)

\* Every nonempty set of natural numbers has a least element
LEMMA LeastNatural ==
    ASSUME NEW A \in SUBSET Nat, NEW n \in A
    PROVE  \E m \in A : \A k \in Nat : k < m => k \notin A
<1> DEFINE R == OpToRel(<, Nat)
<1>1. IsWellFoundedOn(R, Nat)
  BY NatLessThanWellFounded, Zenon
<1>2. \E x \in A : \A y \in A : ~ (<<y, x>> \in R)
  <2> HIDE DEF R
  <2> QED
    BY <1>1, WFMin
<1>3. \A x, y \in Nat : y < x => <<y, x>> \in R
  BY DEF OpToRel
<1> QED
  BY <1>2, <1>3

\* A set that contains the empty set, and each set all of whose elements can be
\* removed within it, contains every subset of a finite set
LEMMA RemovalInduction ==
    ASSUME NEW D, IsFiniteSet(D), NEW A, {} \in A,
           \A T \in SUBSET D : T # {} /\ (\A x \in T : T \ {x} \in A) => T \in A
    PROVE  \A T \in SUBSET D : T \in A
<1> SUFFICES ASSUME NEW T \in SUBSET D, T \notin A
             PROVE  FALSE
  OBVIOUS
<1>1. \A U \in SUBSET D : IsFiniteSet(U) /\ Cardinality(U) \in Nat
  BY FS_Subset, FS_CardinalityType
<1> DEFINE Bad == {n \in Nat : \E U \in SUBSET D : Cardinality(U) = n /\ U \notin A}
<1>2. Cardinality(T) \in Bad /\ Bad \in SUBSET Nat
  BY <1>1
<1>3. PICK m \in Bad : \A k \in Nat : k < m => k \notin Bad
  <2> HIDE DEF Bad
  <2> QED
    BY <1>2, LeastNatural
<1>4. PICK U \in SUBSET D : Cardinality(U) = m /\ U \notin A
  BY <1>3
<1>5. U # {}
  BY <1>4
<1>6. ASSUME NEW x \in U
      PROVE  U \ {x} \in A
  <2>1. Cardinality(U \ {x}) = m - 1 /\ U \ {x} \in SUBSET D
    BY <1>1, <1>4, FS_RemoveElement
  <2>2. m - 1 \in Nat /\ m - 1 < m
    BY <1>1, <1>3, <2>1
  <2>3. m - 1 \notin Bad
    BY <1>3, <2>2
  <2> QED
    BY <2>1, <2>2, <2>3
<1> QED
  BY <1>4, <1>5, <1>6

----------------------------------------------------------------------------
(* Totals *)

\* The total of f over S, as the model adds up costs
Total(f, S) == MapThenSumSet(LAMBDA i : f[i], S)

\* The element a fold takes next
Taken(s) == CHOOSE x \in s : TRUE

\* One line of the table of totals
Line(f, T, s) == IF s = {} THEN 0 ELSE f[Taken(s)] + T[s \ {Taken(s)}]

\* T is the table of totals of f over the subsets of S
IsTable(f, S, T) == T = [s \in SUBSET S |-> Line(f, T, s)]

\* An element taken from a nonempty set is one of its elements
LEMMA TakenElement ==
    ASSUME NEW s, s # {}
    PROVE  Taken(s) \in s
  BY Zenon DEF Taken

\* A finite set has a table of totals
LEMMA TableExists ==
    ASSUME NEW S, IsFiniteSet(S), NEW f
    PROVE  \E T : IsTable(f, S, T)
<1>1. \A s \in SUBSET S : IsFiniteSet(s) /\ Cardinality(s) \in Nat
  BY FS_Subset, FS_CardinalityType
<1> DEFINE Upto(n) == {s \in SUBSET S : Cardinality(s) <= n}
           Partial(n, T) == \A s \in Upto(n) : T[s] = Line(f, T, s)
           Bad == {n \in Nat : ~\E T : Partial(n, T)}
<1>2. ASSUME Bad # {} PROVE FALSE
  <2>1. PICK m \in Bad : \A k \in Nat : k < m => k \notin Bad
    <3>1. PICK n : n \in Bad
      BY <1>2
    <3>2. Bad \in SUBSET Nat
      OBVIOUS
    <3> HIDE DEF Bad
    <3> QED
      BY <3>1, <3>2, LeastNatural
  <2>2. m \in Nat
    BY <2>1
  <2>3. CASE m = 0
    <3> DEFINE T == [s \in SUBSET S |-> 0]
    <3>1. \A s \in Upto(0) : s = {}
      BY <1>1, FS_EmptySet
    <3>2. Partial(0, T)
      BY <3>1 DEF Line
    <3> QED
      BY <2>1, <2>3, <3>2
  <2>4. CASE m > 0
    <3>1. m - 1 \in Nat /\ m - 1 < m
      BY <2>2, <2>4
    <3>2. \E T : Partial(m - 1, T)
      BY <2>1, <3>1
    <3>3. PICK T : Partial(m - 1, T)
      BY <3>2
    <3> DEFINE V == [s \in SUBSET S |-> Line(f, T, s)]
    <3>4. ASSUME NEW s \in Upto(m)
          PROVE  V[s] = Line(f, V, s)
      <4>1. V[s] = Line(f, T, s)
        OBVIOUS
      <4>2. CASE s = {}
        BY <4>1, <4>2 DEF Line
      <4>3. CASE s # {}
        <5> DEFINE r == s \ {Taken(s)}
        <5>1. r \in SUBSET S /\ Cardinality(r) = Cardinality(s) - 1
          BY <1>1, <4>3, TakenElement, FS_RemoveElement
        <5>2. r \in Upto(m - 1)
          BY <1>1, <2>2, <5>1
        <5>3. T[r] = Line(f, T, r) /\ V[r] = Line(f, T, r)
          <6> HIDE DEF r
          <6> QED
            BY <3>3, <5>1, <5>2
        <5> QED
          BY <4>1, <4>3, <5>3 DEF Line
      <4> QED
        BY <4>2, <4>3
    <3>5. Partial(m, V)
      BY <3>4
    <3> QED
      BY <2>1, <3>5
  <2> QED
    BY <2>2, <2>3, <2>4
<1>3. Cardinality(S) \in Nat /\ Bad = {}
  BY <1>1, <1>2
<1>4. PICK T : Partial(Cardinality(S), T)
  BY <1>3
<1> DEFINE V == [s \in SUBSET S |-> T[s]]
<1>5. \A s \in SUBSET S : s \in Upto(Cardinality(S))
  BY FS_Subset
<1>6. \A s \in SUBSET S : T[s] = Line(f, T, s)
  BY <1>4, <1>5
<1>7. \A s \in SUBSET S : V[s] = Line(f, V, s)
  BY <1>6 DEF Line
<1>8. IsTable(f, S, V)
  BY <1>7 DEF IsTable
<1> QED
  BY <1>8

\* The total over a finite set is read off its table
LEMMA TotalTable ==
    ASSUME NEW S, IsFiniteSet(S), NEW f
    PROVE  \E T : IsTable(f, S, T) /\ Total(f, S) = T[S]
<1> DEFINE it == CHOOSE T : IsTable(f, S, T)
<1>1. IsTable(f, S, it)
  BY TableExists, Zenon
<1>2. Total(f, S) = it[S]
  BY DEF Total, MapThenSumSet, MapThenFoldSet, IsTable, Line, Taken
<1> QED
  BY <1>1, <1>2

\* Tables of totals agree where both are defined
LEMMA TablesAgree ==
    ASSUME NEW S, IsFiniteSet(S), NEW U \in SUBSET S, NEW f, NEW T, NEW V,
           IsTable(f, S, T), IsTable(f, U, V)
    PROVE  V[U] = T[U]
<1> DEFINE A == {s \in SUBSET U : V[s] = T[s]}
<1>1. \A s \in SUBSET U : V[s] = Line(f, V, s) /\ T[s] = Line(f, T, s)
  BY DEF IsTable
<1>2. {} \in A
  BY <1>1 DEF Line
<1>3. ASSUME NEW s \in SUBSET U, s # {}, \A x \in s : s \ {x} \in A
      PROVE  s \in A
  BY <1>1, <1>3, TakenElement DEF Line
<1>4. IsFiniteSet(U)
  BY FS_Subset
<1>5. \A s \in SUBSET U : s \in A
  <2> HIDE DEF A
  <2> QED
    BY <1>2, <1>3, <1>4, RemovalInduction
<1> QED
  BY <1>5

\* A total is the element a fold takes first plus the total of the others
LEMMA TotalUnfolds ==
    ASSUME NEW S, IsFiniteSet(S), NEW f
    PROVE  Total(f, S) = IF S = {} THEN 0
                         ELSE f[Taken(S)] + Total(f, S \ {Taken(S)})
<1>1. PICK T : IsTable(f, S, T) /\ Total(f, S) = T[S]
  BY TotalTable
<1>2. T[S] = Line(f, T, S)
  BY <1>1 DEF IsTable
<1>3. CASE S = {}
  BY <1>1, <1>2, <1>3 DEF Line
<1>4. CASE S # {}
  <2> DEFINE U == S \ {Taken(S)}
  <2>1. U \in SUBSET S /\ IsFiniteSet(U)
    BY FS_Subset
  <2>2. PICK V : IsTable(f, U, V) /\ Total(f, U) = V[U]
    <3> HIDE DEF U
    <3> QED
      BY <2>1, TotalTable
  <2>3. V[U] = T[U]
    <3> HIDE DEF U
    <3> QED
      BY <1>1, <2>1, <2>2, TablesAgree
  <2> QED
    BY <1>1, <1>2, <1>4, <2>2, <2>3 DEF Line
<1> QED
  BY <1>3, <1>4

\* A total of natural numbers is one
LEMMA TotalType ==
    ASSUME NEW D, IsFiniteSet(D), NEW f \in [D -> Nat]
    PROVE  \A S \in SUBSET D : Total(f, S) \in Nat
<1> DEFINE A == {S \in SUBSET D : Total(f, S) \in Nat}
<1>1. \A S \in SUBSET D : IsFiniteSet(S)
  BY FS_Subset
<1>2. {} \in A
  <2>1. Total(f, {}) = 0
    BY <1>1, TotalUnfolds
  <2> QED
    BY <2>1
<1>3. ASSUME NEW S \in SUBSET D, S # {}, \A x \in S : S \ {x} \in A
      PROVE  S \in A
  <2>1. Taken(S) \in D /\ Total(f, S \ {Taken(S)}) \in Nat
    <3>1. Taken(S) \in S
      BY <1>3, TakenElement
    <3> QED
      BY <1>3, <3>1
  <2>2. Total(f, S) = f[Taken(S)] + Total(f, S \ {Taken(S)})
    BY <1>1, <1>3, TotalUnfolds
  <2> QED
    BY <2>1, <2>2
<1>4. \A S \in SUBSET D : S \in A
  <2> HIDE DEF A
  <2> QED
    BY <1>2, <1>3, RemovalInduction
<1> QED
  BY <1>4

\* Any element can be taken out of a total
LEMMA TotalRemove ==
    ASSUME NEW D, IsFiniteSet(D), NEW f \in [D -> Nat]
    PROVE  \A S \in SUBSET D : \A x \in S : Total(f, S) = f[x] + Total(f, S \ {x})
<1> DEFINE A == {S \in SUBSET D : \A x \in S : Total(f, S) = f[x] + Total(f, S \ {x})}
<1>1. \A S \in SUBSET D : IsFiniteSet(S) /\ Total(f, S) \in Nat
  BY FS_Subset, TotalType
<1>2. {} \in A
  OBVIOUS
<1>3. ASSUME NEW S \in SUBSET D, S # {}, \A x \in S : S \ {x} \in A
      PROVE  S \in A
  <2> SUFFICES ASSUME NEW x \in S
               PROVE  Total(f, S) = f[x] + Total(f, S \ {x})
    OBVIOUS
  <2>1. Taken(S) \in S
    BY TakenElement
  <2>2. PICK y \in S : Total(f, S) = f[y] + Total(f, S \ {y})
    BY <1>1, <1>3, <2>1, TotalUnfolds
  <2>3. CASE x = y
    BY <2>2, <2>3
  <2>4. CASE x # y
    <3>1. Total(f, S \ {y}) = f[x] + Total(f, (S \ {y}) \ {x})
      BY <1>3, <2>4
    <3>2. Total(f, S \ {x}) = f[y] + Total(f, (S \ {x}) \ {y})
      BY <1>3, <2>4
    <3>3. (S \ {y}) \ {x} = (S \ {x}) \ {y}
      OBVIOUS
    <3>4. f[x] \in Nat /\ f[y] \in Nat /\ Total(f, (S \ {x}) \ {y}) \in Nat
      BY <1>1
    <3> QED
      BY <2>2, <3>1, <3>2, <3>3, <3>4
  <2> QED
    BY <2>3, <2>4
<1>4. \A S \in SUBSET D : S \in A
  <2> HIDE DEF A
  <2> QED
    BY <1>2, <1>3, RemovalInduction
<1> QED
  BY <1>4

\* A total grows at most by what its elements grow; elements that count for nothing
\* may come and go
LEMMA TotalCompare ==
    ASSUME NEW D, IsFiniteSet(D), NEW f \in [D -> Nat], NEW g \in [D -> Nat],
           NEW S \in SUBSET D, NEW W \in SUBSET D,
           \A i \in S : f[i] = 0 \/ (i \in W /\ f[i] <= g[i])
    PROVE  Total(f, S) <= Total(g, W)
<1> DEFINE Below(U, V) == \A i \in U : f[i] = 0 \/ (i \in V /\ f[i] <= g[i])
           A == {U \in SUBSET D : \A V \in SUBSET D :
                    Below(U, V) => Total(f, U) <= Total(g, V)}
<1>1. \A U \in SUBSET D : IsFiniteSet(U) /\ Total(f, U) \in Nat /\ Total(g, U) \in Nat
  BY FS_Subset, TotalType
<1>2. {} \in A
  <2>1. Total(f, {}) = 0
    BY <1>1, TotalUnfolds
  <2> QED
    BY <1>1, <2>1
<1>3. ASSUME NEW U \in SUBSET D, U # {}, \A x \in U : U \ {x} \in A
      PROVE  U \in A
  <2> SUFFICES ASSUME NEW V \in SUBSET D, Below(U, V)
               PROVE  Total(f, U) <= Total(g, V)
    OBVIOUS
  <2>1. PICK x \in U : TRUE
    BY <1>3
  <2>2. Total(f, U) = f[x] + Total(f, U \ {x})
    BY TotalRemove
  <2>3. f[x] \in Nat /\ g[x] \in Nat /\ U \ {x} \in SUBSET D /\ V \ {x} \in SUBSET D
    OBVIOUS
  <2>4. CASE f[x] = 0
    <3>1. Below(U \ {x}, V)
      OBVIOUS
    <3>2. Total(f, U \ {x}) <= Total(g, V)
      BY <1>3, <3>1
    <3> QED
      BY <1>1, <2>2, <2>3, <2>4, <3>2
  <2>5. CASE x \in V /\ f[x] <= g[x]
    <3>1. Below(U \ {x}, V \ {x})
      OBVIOUS
    <3>2. Total(f, U \ {x}) <= Total(g, V \ {x})
      BY <1>3, <2>3, <3>1
    <3>3. Total(g, V) = g[x] + Total(g, V \ {x})
      BY <2>5, TotalRemove
    <3> QED
      BY <1>1, <2>2, <2>3, <2>5, <3>2, <3>3
  <2> QED
    BY <2>4, <2>5
<1>4. \A U \in SUBSET D : U \in A
  <2> HIDE DEF A
  <2> QED
    BY <1>2, <1>3, RemovalInduction
<1>5. Below(S, W)
  OBVIOUS
<1> QED
  BY <1>4, <1>5

----------------------------------------------------------------------------
(* What a step does to costs and failure slots *)

\* What the ledger counts for each row
Costs == [i \in Requests |-> BudgetCost(requests[i])]

\* The sums a claim compares with its limits are totals of those costs
LEMMA SpentTotal ==
    ASSUME NEW S \in SUBSET Requests
    PROVE  Spent(S) = Total(Costs, S)
<1> DEFINE P(T) == T = [s \in SUBSET S |->
                         IF s = {} THEN 0
                         ELSE BudgetCost(requests[Taken(s)]) + T[s \ {Taken(s)}]]
<1>1. ASSUME NEW T PROVE P(T) <=> IsTable(Costs, S, T)
  <2>1. \A s \in SUBSET S : s # {} => Costs[Taken(s)] = BudgetCost(requests[Taken(s)])
    BY TakenElement DEF Costs
  <2>2. \A s \in SUBSET S : Line(Costs, T, s) =
            IF s = {} THEN 0 ELSE BudgetCost(requests[Taken(s)]) + T[s \ {Taken(s)}]
    BY <2>1 DEF Line
  <2> QED
    BY <2>2 DEF IsTable
<1>2. (CHOOSE T : P(T)) = (CHOOSE T : IsTable(Costs, S, T))
  <2> HIDE DEF P
  <2> QED
    BY <1>1, Zenon
<1>3. Spent(S) = (CHOOSE T : P(T))[S]
  BY DEF Spent, MapThenSumSet, MapThenFoldSet, Taken
<1>4. Total(Costs, S) = (CHOOSE T : IsTable(Costs, S, T))[S]
  BY DEF Total, MapThenSumSet, MapThenFoldSet, IsTable, Line, Taken
<1> QED
  BY <1>2, <1>3, <1>4

\* The cost of a row whose call has no answer is the reservation, of one without a call
\* nothing
LEMMA CostOfRow ==
    ASSUME SpendLedger, CostsRecorded, NEW i \in Requests
    PROVE  /\ ~Started(requests[i]) => exposure[i] = 0
           /\ Started(requests[i]) /\ requests[i].response = "none"
                => exposure[i] = Reservation
<1>1. RowOK(requests[i])
  BY DEF SpendLedger, LedgerOK
<1> QED
  BY <1>1 DEF RowOK, CostsRecorded, BudgetCost

\* One row agrees with what the provider may have charged for it
Recorded(r, e) ==
    /\ e = BudgetCost(r)
    /\ r.reserved = IF Started(r) THEN Reservation ELSE 0
    /\ r.response = "none" => r.actual = None

\* Registration costs nothing
LEMMA RegisteredCosts ==
    ASSUME NEW r, NEW q, NEW b, NEW t, NEW s, NEW e, Registered(r, q, b, t, s), Recorded(r, e)
    PROVE  Recorded(q, e)
<1>1. Started(q) = Started(r)
  BY DEF Registered, Started
<1> QED
  BY <1>1 DEF Registered, Recorded, BudgetCost

\* An answer settles the cost at what was reported, or leaves it at the reservation
LEMMA AnsweredCosts ==
    ASSUME NEW r \in Row, Started(r), r.reserved = Reservation, NEW status \in Statuses,
           NEW response \in Responses \ {"none"}, NEW cost \in ActualCosts \cup {None}
    PROVE  LET q == Answered(r, status, response, cost)
           IN  Recorded(q, Charged(cost)) /\ q.startedIn = r.startedIn /\ q.status = status
<1> DEFINE q == Answered(r, status, response, cost)
<1>1. /\ q.actual = cost /\ q.reserved = Reservation /\ q.response = response
      /\ q.startedIn = r.startedIn /\ q.status = status
  BY DEF Answered, Row
<1> HIDE DEF q
<1>2. Started(q)
  BY <1>1 DEF Started
<1>3. BudgetCost(q) = Charged(cost)
  BY <1>1 DEF BudgetCost, Charged
<1> QED
  BY <1>1, <1>2, <1>3 DEF Recorded, q

\* A row like r that costs e is a possible next state of the row of request i
StaysCheap(i, r, e) ==
    /\ Recorded(r, e) /\ r.startedIn = requests[i].startedIn /\ e <= exposure[i]
    /\ Started(requests[i]) /\ r.status \in Failing => requests[i].status \in Failing

\* And so it is once a text has been registered
LEMMA RegisteredCheap ==
    ASSUME NEW i, NEW r, NEW q, NEW b, NEW t, NEW s, NEW e,
           Registered(r, q, b, t, s), StaysCheap(i, r, e)
    PROVE  StaysCheap(i, q, e)
<1>1. Recorded(q, e)
  BY RegisteredCosts DEF StaysCheap
<1> QED
  BY <1>1 DEF Registered, StaysCheap

\* No step but a paid claim raises a cost or takes up a failure slot
LEMMA CheapStep ==
    ASSUME SpendLedger, AnswersSettled, CostsRecorded, [Next]_vars,
           ~\E j \in Jobs, i \in Requests : ClaimPaid(j, i)
    PROVE  \A i \in Requests : StaysCheap(i, requests'[i], exposure'[i])
<1>1. /\ LedgerOK(requests) /\ context \in Contexts
      /\ summary \in [Bills -> (Texts \X Contexts) \cup {None}]
      /\ exposure \in [Requests -> 0 .. Reservation]
      /\ \A k \in Requests : requests[k] \in Row /\ RowOK(requests[k])
  BY DEF SpendLedger, TypeOK, LedgerOK
<1>2. \A k \in Requests : StaysCheap(k, requests[k], exposure[k])
  BY <1>1, LimitsAssumption DEF CostsRecorded, StaysCheap, Recorded
<1>3. CASE QuietStep
  BY <1>2, <1>3 DEF QuietStep
<1>4. ASSUME NEW b \in Bills, NEW t \in Texts, MarkStep(b, t), NEW k \in Requests
      PROVE  StaysCheap(k, requests'[k], exposure'[k])
  <2>1. exposure' = exposure
    BY <1>4 DEF MarkStep
  <2>2. CASE requests'[k] = requests[k]
    BY <1>2, <2>1, <2>2
  <2>3. CASE requests'[k] = [requests[k] EXCEPT !.status = "ready", !.gated = FALSE]
    <3> DEFINE q == [requests[k] EXCEPT !.status = "ready", !.gated = FALSE]
    <3>1. /\ q.status = "ready" /\ q.startedIn = requests[k].startedIn
          /\ q.reserved = requests[k].reserved /\ q.actual = requests[k].actual
          /\ q.response = requests[k].response
      BY <1>1 DEF Row
    <3> HIDE DEF q
    <3>2. Recorded(q, exposure[k])
      BY <1>2, <3>1 DEF StaysCheap, Recorded, BudgetCost, Started
    <3> QED
      BY <1>2, <2>1, <2>3, <3>1, <3>2 DEF StaysCheap, Failing, q
  <2> QED
    BY <1>4, <2>2, <2>3 DEF MarkStep, MarkReady, Promoted
<1>5. ASSUME NEW b \in Bills, NEW t \in Texts \cup {None}, SaveStep(b, t), NEW k \in Requests
      PROVE  StaysCheap(k, requests'[k], exposure'[k])
  <2>1. Registered(requests[k], requests'[k], b, t, search'[b]) /\ exposure' = exposure
    BY <1>1, <1>5, RegisterRows DEF SaveStep
  <2> QED
    BY <1>2, <2>1, RegisteredCheap
<1>6. ASSUME NEW i \in Requests, OvertakenStep(i), NEW k \in Requests
      PROVE  StaysCheap(k, requests'[k], exposure'[k])
  <2> DEFINE b == requests[i].bill
             R == [requests EXCEPT ![i].status = "superseded", ![i].gated = FALSE]
  <2>1. /\ LedgerOK(R) /\ b \in Bills /\ text[b] \in Texts \cup {None}
        /\ R[i].status = "superseded" /\ R[i].response = requests[i].response
        /\ R[i].startedIn = requests[i].startedIn
        /\ R[i].reserved = requests[i].reserved /\ R[i].actual = requests[i].actual
        /\ \A n \in Requests \ {i} : R[n] = requests[n]
    BY <1>6, OvertakenRows
  <2>2. Register(R, b, text[b], search[b]) /\ exposure' = exposure
    BY <1>6 DEF OvertakenStep
  <2> HIDE DEF R
  <2>3. Registered(R[k], requests'[k], b, text[b], search[b])
    BY <1>1, <2>1, <2>2, RegisterRows
  <2>4. StaysCheap(k, R[k], exposure[k])
    <3>1. CASE k = i
      BY <1>2, <2>1, <3>1 DEF StaysCheap, Recorded, BudgetCost, Started, Failing
    <3> QED
      BY <1>2, <2>1, <3>1
  <2> QED
    BY <2>2, <2>3, <2>4, RegisteredCheap
<1>7. ASSUME NEW j \in Jobs, NEW i \in Requests, NEW q, NEW e,
             StaysCheap(i, q, e), exposure' = [exposure EXCEPT ![i] = e],
             NEW k \in Requests
      PROVE  /\ requests' = [requests EXCEPT ![i] = q]
                    => StaysCheap(k, requests'[k], exposure'[k])
             /\ StaysCheap(k, [requests EXCEPT ![i] = q][k], exposure'[k])
  BY <1>1, <1>2, <1>7 DEF LedgerOK
<1>8. ASSUME NEW j \in Jobs, NEW i \in Requests, OwnStep(j, i), NEW k \in Requests
      PROVE  StaysCheap(k, requests'[k], exposure'[k])
  <2> DEFINE r == requests[i]
  <2>1. /\ r \in Row /\ requests \in [Requests -> Row] /\ StaysCheap(i, r, exposure[i])
        /\ exposure = [exposure EXCEPT ![i] = exposure[i]]
    BY <1>1, <1>2 DEF LedgerOK
  <2>2. CASE ClaimAbandoned(j, i) \/ ClaimRefused(j, i) \/ ClaimCapped(j, i)
    <3>1. PICK q : /\ requests' = [requests EXCEPT ![i] = q]
                   /\ q.startedIn = r.startedIn /\ q.reserved = r.reserved
                   /\ q.actual = r.actual /\ q.response = r.response
                   /\ Started(r) => r.status = "processing"
      <4>1. CASE ClaimAbandoned(j, i)
        <5> DEFINE q == [r EXCEPT !.status = "ambiguous", !.gated = FALSE]
        <5>1. Started(r) /\ r.status \in Active /\ requests' = [requests EXCEPT ![i] = q]
          BY <2>1, <4>1 DEF ClaimAbandoned, Claimed
        <5>2. r.status = "processing"
          BY <1>1, <5>1 DEF RowOK, Active
        <5>3. /\ q.startedIn = r.startedIn /\ q.reserved = r.reserved
              /\ q.actual = r.actual /\ q.response = r.response
          BY <2>1 DEF Row
        <5> QED
          BY <5>1, <5>2, <5>3
      <4>2. CASE ClaimRefused(j, i)
        <5> DEFINE q == [r EXCEPT !.context = context, !.status = "failed", !.gated = TRUE]
        <5>1. r.status = "ready" /\ requests' = [requests EXCEPT ![i] = q]
          BY <2>1, <4>2 DEF ClaimRefused, Claimable
        <5>2. ~Started(r)
          BY <1>1, <5>1 DEF RowOK
        <5>3. /\ q.startedIn = r.startedIn /\ q.reserved = r.reserved
              /\ q.actual = r.actual /\ q.response = r.response
          BY <2>1 DEF Row
        <5> QED
          BY <5>1, <5>2, <5>3
      <4>3. CASE ClaimCapped(j, i)
        <5> DEFINE q == [r EXCEPT !.context = context]
        <5>1. r.status = "ready" /\ requests' = [requests EXCEPT ![i] = q]
          BY <2>1, <4>3 DEF ClaimCapped, Claimable
        <5>2. ~Started(r)
          BY <1>1, <5>1 DEF RowOK
        <5>3. /\ q.startedIn = r.startedIn /\ q.reserved = r.reserved
              /\ q.actual = r.actual /\ q.response = r.response
          BY <2>1 DEF Row
        <5> QED
          BY <5>1, <5>2, <5>3
      <4> QED
        BY <2>2, <4>1, <4>2, <4>3
    <3>2. Recorded(q, exposure[i])
      BY <2>1, <3>1 DEF StaysCheap, Recorded, BudgetCost, Started
    <3>3. StaysCheap(i, q, exposure[i])
      BY <2>1, <3>1, <3>2 DEF StaysCheap, Failing
    <3>4. exposure' = [exposure EXCEPT ![i] = exposure[i]]
      BY <2>1, <2>2 DEF ClaimAbandoned, ClaimRefused, ClaimCapped, history
    <3> QED
      BY <1>7, <3>1, <3>3, <3>4
  <2>3. ASSUME Calls(j, i)
        PROVE  /\ Started(r) /\ r.status \in {"processing", "superseded"}
               /\ r.response = "none" /\ r.reserved = Reservation /\ r.actual = None
               /\ exposure[i] = Reservation
    BY <2>3, CallingRow, CallingStatus, CostOfRow DEF CostsRecorded
  <2>4. ASSUME NEW status \in {"completed", "failed", "superseded"},
               NEW response \in Responses \ {"none"}, NEW cost \in ActualCosts \cup {None},
               Calls(j, i), status = "failed" => r.status = "processing"
        PROVE  StaysCheap(i, Answered(r, status, response, cost), Charged(cost))
    <3> DEFINE q == Answered(r, status, response, cost)
    <3>1. Recorded(q, Charged(cost)) /\ q.startedIn = r.startedIn /\ q.status = status
      <4>1. status \in Statuses
        BY DEF Statuses
      <4>2. Started(r) /\ r.reserved = Reservation
        BY <2>3, <2>4
      <4> QED
        BY <2>1, <4>1, <4>2, AnsweredCosts
    <3>2. Charged(cost) <= exposure[i]
      BY <2>3, <2>4, ChargedBounded, LimitsAssumption
    <3> HIDE DEF q
    <3>3. StaysCheap(i, q, Charged(cost))
      BY <2>4, <3>1, <3>2 DEF StaysCheap, Failing
    <3> QED
      BY <3>3 DEF q
  <2>5. ASSUME NEW response \in Responses \ {"none"}, NEW cost \in ActualCosts \cup {None},
               FinishCurrent(j, i, response, cost)
        PROVE  StaysCheap(k, requests'[k], exposure'[k])
    <3> DEFINE status == IF response = "citable" THEN "completed" ELSE "failed"
               q == Answered(r, status, response, cost)
    <3>1. /\ Calls(j, i) /\ r.status = "processing"
          /\ requests' = [requests EXCEPT ![i] = q]
          /\ exposure' = [exposure EXCEPT ![i] = Charged(cost)]
      BY <2>1, <2>5 DEF FinishCurrent, StillCurrent
    <3>2. StaysCheap(i, q, Charged(cost))
      BY <2>4, <3>1
    <3> HIDE DEF q
    <3> QED
      BY <1>7, <3>1, <3>2
  <2>6. ASSUME NEW response \in Responses \ {"none"}, NEW cost \in ActualCosts \cup {None},
               FinishOutdated(j, i, response, cost)
        PROVE  StaysCheap(k, requests'[k], exposure'[k])
    <3> DEFINE b == r.bill
               q == Answered(r, "superseded", response, cost)
               rows == [requests EXCEPT ![i] = q]
    <3>1. /\ Calls(j, i) /\ exposure' = [exposure EXCEPT ![i] = Charged(cost)]
      BY <2>6 DEF FinishOutdated
    <3>2. StaysCheap(i, q, Charged(cost))
      BY <2>4, <3>1
    <3>3. /\ b \in Bills /\ LedgerOK(rows)
          /\ IF text[b] = None
             THEN requests' = rows /\ summary' = summary
             ELSE Register(rows, b, text[b], search[b])
      BY <2>6, LateAnswer
    <3>4. text[b] \in Texts \cup {None}
      BY <3>3 DEF SpendLedger, TypeOK
    <3>5. StaysCheap(k, rows[k], exposure'[k])
      <4> HIDE DEF q
      <4> QED
        BY <1>7, <3>1, <3>2
    <3> HIDE DEF rows
    <3>6. CASE requests' = rows
      BY <3>5, <3>6
    <3>7. CASE Register(rows, b, text[b], search[b])
      <4>1. Registered(rows[k], requests'[k], b, text[b], search[b])
        BY <1>1, <3>3, <3>4, <3>7, RegisterRows
      <4> QED
        BY <3>5, <4>1, RegisteredCheap
    <3> QED
      BY <3>3, <3>6, <3>7
  <2>7. ASSUME NEW ambiguous \in BOOLEAN, FinishError(j, i, ambiguous)
        PROVE  StaysCheap(k, requests'[k], exposure'[k])
    <3> DEFINE status == IF r.status # "processing" THEN r.status
                         ELSE IF ambiguous THEN "ambiguous" ELSE "failed"
               q == [r EXCEPT !.status = status]
    <3>1. /\ Calls(j, i) /\ requests' = [requests EXCEPT ![i] = q]
          /\ exposure' = [exposure EXCEPT ![i] = exposure[i]]
      BY <2>1, <2>7 DEF FinishError
    <3>2. /\ q.status = status /\ q.startedIn = r.startedIn
          /\ q.reserved = r.reserved /\ q.actual = r.actual /\ q.response = r.response
      BY <2>1 DEF Row
    <3>3. Recorded(q, exposure[i])
      <4> HIDE DEF q
      <4> QED
        BY <2>1, <3>2 DEF StaysCheap, Recorded, BudgetCost, Started
    <3>4. status \in Failing => r.status \in Failing
      BY DEF Failing
    <3> HIDE DEF q, status
    <3>5. StaysCheap(i, q, exposure[i])
      BY <2>1, <3>2, <3>3, <3>4 DEF StaysCheap
    <3> QED
      BY <1>7, <3>1, <3>5
  <2> QED
    BY <1>8, <2>2, <2>5, <2>6, <2>7 DEF OwnStep
<1> QED
  BY <1>3, <1>4, <1>5, <1>6, <1>8, StepShapes

\* A paid claim reserves the cost of one request that was never started
LEMMA ClaimStep ==
    ASSUME SpendLedger, CostsRecorded, NEW j \in Jobs, NEW i \in Requests, ClaimPaid(j, i)
    PROVE  /\ requests[i].startedIn = 0 /\ exposure[i] = 0
           /\ requests[i].status # "absent"
           /\ requests'[i].startedIn = month /\ month \in 1 .. LastMonth
           /\ requests'[i].bill = requests[i].bill
           /\ exposure'[i] = Reservation /\ Recorded(requests'[i], Reservation)
           /\ \A k \in Requests \ {i} :
                requests'[k] = requests[k] /\ exposure'[k] = exposure[k]
           /\ ~CapReached(requests[i].bill)
<1> DEFINE r == requests[i]
           q == [r EXCEPT !.context = context, !.status = "processing",
                          !.startedIn = month, !.claimJob = j,
                          !.reserved = Reservation, !.actual = None, !.gated = FALSE]
<1>1. /\ requests \in [Requests -> Row] /\ r \in Row /\ RowOK(r)
      /\ exposure \in [Requests -> 0 .. Reservation] /\ month \in 1 .. LastMonth
  BY DEF SpendLedger, LedgerOK, TypeOK
<1>2. r.status = "ready" /\ ~CapReached(r.bill)
  BY DEF ClaimPaid, Claimable
<1>3. ~Started(r)
  BY <1>1, <1>2 DEF RowOK
<1>4. requests' = [requests EXCEPT ![i] = q] /\ exposure' = [exposure EXCEPT ![i] = Reservation]
  BY <1>1 DEF ClaimPaid
<1>5. /\ q.startedIn = month /\ q.bill = r.bill /\ q.reserved = Reservation
      /\ q.actual = None /\ q.status = "processing"
  BY <1>1 DEF Row
<1>6. Recorded(q, Reservation)
  <2> HIDE DEF q
  <2>1. Started(q)
    BY <1>1, <1>5, DomainAssumption DEF Started
  <2> QED
    BY <1>5, <2>1 DEF Recorded, BudgetCost
<1>7. exposure[i] = 0
  BY <1>3, CostOfRow
<1> HIDE DEF q
<1> QED
  BY <1>1, <1>2, <1>3, <1>4, <1>5, <1>6, <1>7 DEF Started

\* Every step keeps the record of costs
LEMMA CostsInductive ==
    ASSUME SpendLedger, AnswersSettled, CostsRecorded, [Next]_vars
    PROVE  CostsRecorded'
<1>1. CASE \E j \in Jobs, i \in Requests : ClaimPaid(j, i)
  <2>1. PICK j \in Jobs, i \in Requests : ClaimPaid(j, i)
    BY <1>1
  <2>2. ASSUME NEW k \in Requests
        PROVE  Recorded(requests'[k], exposure'[k])
    <3>1. Recorded(requests[k], exposure[k])
      BY DEF CostsRecorded, Recorded
    <3> QED
      BY <2>1, <3>1, ClaimStep
  <2> QED
    BY <2>2 DEF CostsRecorded, Recorded, BudgetCost, Started
<1>2. CASE ~\E j \in Jobs, i \in Requests : ClaimPaid(j, i)
  BY <1>2, CheapStep DEF StaysCheap, Recorded, CostsRecorded, BudgetCost, Started
<1> QED
  BY <1>1, <1>2

----------------------------------------------------------------------------
(* Failure slots *)

\* The requests of month m that take up a failure slot
SlotsOf(R, m) == {i \in Requests : R[i].startedIn = m /\ R[i].status \in Failing}

\* They are what the invariant and the claim count
LEMMA SlotsCounted ==
    /\ FailureSlotsWithinCap <=>
            \A m \in 1 .. LastMonth : Cardinality(SlotsOf(requests, m)) <= FailureCap
    /\ FailureSlotsWithinCap' <=>
            \A m \in 1 .. LastMonth : Cardinality(SlotsOf(requests', m)) <= FailureCap
    /\ FailureSlots = Cardinality(SlotsOf(requests, month))
<1>1. \A m : {i \in StartedIn(m) : requests[i].status \in {"failed", "ambiguous", "processing"}}
                = SlotsOf(requests, m)
  BY DEF StartedIn, SlotsOf, Failing
<1>2. \A m : {i \in StartedIn(m)' : requests'[i].status \in {"failed", "ambiguous", "processing"}}
                = SlotsOf(requests', m)
  BY DEF StartedIn, SlotsOf, Failing
<1>3. {i \in StartedThisMonth : requests[i].status \in {"failed", "ambiguous", "processing"}}
                = SlotsOf(requests, month)
  BY DEF StartedThisMonth, SlotsOf, Failing
<1> QED
  BY <1>1, <1>2, <1>3 DEF FailureSlotsWithinCap, FailureSlots

\* A step takes up a new failure slot only below the cap
LEMMA SlotsInductive ==
    ASSUME SpendLedger, AnswersSettled, CostsRecorded, FailureSlotsWithinCap, [Next]_vars
    PROVE  FailureSlotsWithinCap'
<1> SUFFICES ASSUME NEW m \in 1 .. LastMonth
             PROVE  Cardinality(SlotsOf(requests', m)) <= FailureCap
  BY SlotsCounted
<1> DEFINE S == SlotsOf(requests, m)
           T == SlotsOf(requests', m)
<1>1. /\ IsFiniteSet(S) /\ Cardinality(S) \in Nat
      /\ IsFiniteSet(T) /\ Cardinality(T) \in Nat
  <2>1. S \in SUBSET Requests /\ T \in SUBSET Requests
    BY DEF SlotsOf
  <2> HIDE DEF S, T
  <2> QED
    BY <2>1, RowsAssumption, FS_Subset, FS_CardinalityType
<1>2. Cardinality(S) <= FailureCap
  BY SlotsCounted
<1>3. CASE T \in SUBSET S
  <2> HIDE DEF S, T
  <2>1. Cardinality(T) <= Cardinality(S)
    BY <1>1, <1>3, FS_Subset
  <2> QED
    BY <1>1, <1>2, <2>1, LimitsAssumption DEF T
<1>4. CASE ~\E j \in Jobs, i \in Requests : ClaimPaid(j, i)
  <2>1. ASSUME NEW i \in T
        PROVE  i \in S
    <3>1. i \in Requests /\ requests'[i].startedIn = m /\ requests'[i].status \in Failing
      BY DEF SlotsOf
    <3>2. StaysCheap(i, requests'[i], exposure'[i])
      BY <1>4, <3>1, CheapStep
    <3>3. requests[i].startedIn = m
      BY <3>1, <3>2 DEF StaysCheap
    <3>4. Started(requests[i])
      BY <3>3 DEF Started
    <3> QED
      BY <3>1, <3>2, <3>3, <3>4 DEF StaysCheap, SlotsOf
  <2> QED
    BY <1>3, <2>1
<1>5. CASE \E j \in Jobs, i \in Requests : ClaimPaid(j, i)
  <2>1. PICK j \in Jobs, i \in Requests : ClaimPaid(j, i)
    BY <1>5
  <2>2. /\ requests'[i].startedIn = month /\ ~CapReached(requests[i].bill)
        /\ \A k \in Requests \ {i} : requests'[k] = requests[k]
    BY <2>1, ClaimStep
  <2>3. CASE m # month
    <3>1. T \in SUBSET S
      BY <2>2, <2>3 DEF SlotsOf
    <3> QED
      BY <1>3, <3>1
  <2>4. CASE m = month
    <3>1. T \in SUBSET (S \cup {i})
      BY <2>2 DEF SlotsOf
    <3>2. ~(Cardinality(S) >= FailureCap)
      BY <2>2, <2>4, SlotsCounted DEF CapReached
    <3> HIDE DEF S, T
    <3>3. IsFiniteSet(S \cup {i}) /\ Cardinality(S \cup {i}) \in {Cardinality(S), Cardinality(S) + 1}
      BY <1>1, FS_AddElement
    <3>4. Cardinality(T) <= Cardinality(S \cup {i})
      BY <3>1, <3>3, FS_Subset
    <3> QED
      BY <1>1, <3>2, <3>3, <3>4, LimitsAssumption DEF T
  <2> QED
    BY <2>3, <2>4
<1> QED
  BY <1>4, <1>5

----------------------------------------------------------------------------
(* Budgets *)

\* The invariant's sums are totals of the exposures
LEMMA ExposedTotal ==
    /\ SpendWithinBudgets <=>
            /\ \A m \in 1 .. LastMonth :
                 Total(exposure, {i \in Requests : requests[i].startedIn = m}) <= MonthlyBudget
            /\ \A b \in Bills :
                 Total(exposure, {i \in Requests : requests[i].bill = b}) <= BillBudget
    /\ SpendWithinBudgets' <=>
            /\ \A m \in 1 .. LastMonth :
                 Total(exposure', {i \in Requests : requests'[i].startedIn = m}) <= MonthlyBudget
            /\ \A b \in Bills :
                 Total(exposure', {i \in Requests : requests'[i].bill = b}) <= BillBudget
<1>1. ASSUME NEW m
      PROVE  /\ Exposed(StartedIn(m))
                    = Total(exposure, {i \in Requests : requests[i].startedIn = m})
             /\ Exposed(StartedIn(m))'
                    = Total(exposure', {i \in Requests : requests'[i].startedIn = m})
  BY DEF Exposed, StartedIn, Total, MapThenSumSet, MapThenFoldSet
<1>2. ASSUME NEW b
      PROVE  /\ Exposed({i \in Requests : requests[i].bill = b})
                    = Total(exposure, {i \in Requests : requests[i].bill = b})
             /\ Exposed({i \in Requests : requests[i].bill = b})'
                    = Total(exposure', {i \in Requests : requests'[i].bill = b})
  BY DEF Exposed, Total, MapThenSumSet, MapThenFoldSet
<1>3. SpendWithinBudgets <=>
            /\ \A m \in 1 .. LastMonth : Exposed(StartedIn(m)) <= MonthlyBudget
            /\ \A b \in Bills : Exposed({i \in Requests : requests[i].bill = b}) <= BillBudget
  BY DEF SpendWithinBudgets
<1>4. SpendWithinBudgets' <=>
            /\ \A m \in 1 .. LastMonth : Exposed(StartedIn(m))' <= MonthlyBudget
            /\ \A b \in Bills : Exposed({i \in Requests : requests[i].bill = b})' <= BillBudget
  BY DEF SpendWithinBudgets
<1> QED
  BY <1>1, <1>2, <1>3, <1>4

\* A step that starts no call leaves every total of exposures at most what it was
LEMMA CheapTotals ==
    ASSUME SpendLedger, AnswersSettled, CostsRecorded, SpendWithinBudgets, [Next]_vars,
           ~\E j \in Jobs, i \in Requests : ClaimPaid(j, i)
    PROVE  SpendWithinBudgets'
<1>1. exposure \in [Requests -> Nat] /\ exposure' \in [Requests -> Nat]
  BY LedgerInductive, LimitsAssumption DEF SpendLedger, TypeOK
<1>2. \A i \in Requests : StaysCheap(i, requests'[i], exposure'[i])
  BY CheapStep
<1>3. ASSUME NEW S \in SUBSET Requests, NEW T \in SUBSET Requests, NEW B \in Nat,
             \A i \in T : exposure'[i] = 0 \/ i \in S, Total(exposure, S) <= B
      PROVE  Total(exposure', T) <= B
  <2>1. \A i \in T : exposure'[i] = 0 \/ (i \in S /\ exposure'[i] <= exposure[i])
    BY <1>2, <1>3 DEF StaysCheap
  <2>2. Total(exposure', T) <= Total(exposure, S)
    BY <1>1, <2>1, RowsAssumption, TotalCompare
  <2>3. Total(exposure', T) \in Nat /\ Total(exposure, S) \in Nat
    BY <1>1, RowsAssumption, TotalType
  <2> QED
    BY <1>3, <2>2, <2>3
<1>4. ASSUME NEW m \in 1 .. LastMonth
      PROVE  Total(exposure', {i \in Requests : requests'[i].startedIn = m}) <= MonthlyBudget
  <2> DEFINE S == {i \in Requests : requests[i].startedIn = m}
             T == {i \in Requests : requests'[i].startedIn = m}
  <2>1. \A i \in T : i \in S
    BY <1>2 DEF StaysCheap
  <2>2. Total(exposure, S) <= MonthlyBudget /\ MonthlyBudget \in Nat
    BY ExposedTotal, LimitsAssumption
  <2>3. S \in SUBSET Requests /\ T \in SUBSET Requests
    OBVIOUS
  <2> HIDE DEF S, T
  <2>4. Total(exposure', T) <= MonthlyBudget
    BY <1>3, <2>1, <2>2, <2>3
  <2> QED
    BY <2>4 DEF T
<1>5. ASSUME NEW b \in Bills
      PROVE  Total(exposure', {i \in Requests : requests'[i].bill = b}) <= BillBudget
  <2> DEFINE S == {i \in Requests : requests[i].bill = b}
             T == {i \in Requests : requests'[i].bill = b}
  <2>1. ASSUME NEW i \in T
        PROVE  exposure'[i] = 0 \/ i \in S
    <3>1. CASE Started(requests[i])
      <4>1. Identity(requests'[i]) = Identity(requests[i])
        BY <3>1, LedgerInductive DEF PaidRowsKept, RowKept
      <4> QED
        BY <4>1 DEF Identity
    <3>2. CASE ~Started(requests[i])
      <4>1. exposure[i] = 0 /\ exposure'[i] <= exposure[i]
        BY <1>2, <3>2, CostOfRow DEF StaysCheap
      <4> QED
        BY <1>1, <4>1
    <3> QED
      BY <3>1, <3>2
  <2>2. Total(exposure, S) <= BillBudget /\ BillBudget \in Nat
    BY ExposedTotal, LimitsAssumption
  <2>3. S \in SUBSET Requests /\ T \in SUBSET Requests
    OBVIOUS
  <2> HIDE DEF S, T
  <2>4. Total(exposure', T) <= BillBudget
    BY <1>3, <2>1, <2>2, <2>3
  <2> QED
    BY <2>4 DEF T
<1> QED
  BY <1>4, <1>5, ExposedTotal

\* A paid claim adds one reservation to its month and its bill, and only where the
\* ledger's own count leaves room for it
LEMMA ClaimTotals ==
    ASSUME SpendLedger, AnswersSettled, CostsRecorded, SpendWithinBudgets, [Next]_vars,
           NEW j \in Jobs, NEW i \in Requests, ClaimPaid(j, i)
    PROVE  SpendWithinBudgets'
<1>1. exposure \in [Requests -> Nat] /\ exposure' \in [Requests -> Nat]
      /\ Reservation \in Nat /\ MonthlyBudget \in Nat /\ BillBudget \in Nat
  BY LedgerInductive, LimitsAssumption DEF SpendLedger, TypeOK
<1>2. /\ requests[i].startedIn = 0 /\ requests[i].status # "absent"
      /\ requests'[i].startedIn = month
      /\ requests'[i].bill = requests[i].bill /\ exposure'[i] = Reservation
      /\ \A k \in Requests \ {i} : requests'[k] = requests[k] /\ exposure'[k] = exposure[k]
      /\ ~CapReached(requests[i].bill)
  BY ClaimStep
<1>3. exposure = Costs
  BY <1>1 DEF CostsRecorded, Costs
<1>4. ASSUME NEW S \in SUBSET Requests
      PROVE  Total(exposure, S) = Spent(S) /\ Total(exposure, S) \in Nat
             /\ Total(exposure', S) \in Nat
  BY <1>1, <1>3, SpentTotal, RowsAssumption, TotalType
<1>5. ASSUME NEW S \in SUBSET Requests, NEW T \in SUBSET Requests,
             \A k \in T : k = i \/ k \in S
      PROVE  /\ Total(exposure', T) <= Total(exposure, S) + Reservation
             /\ i \notin T => Total(exposure', T) <= Total(exposure, S)
  <2>1. T \ {i} \in SUBSET Requests
    OBVIOUS
  <2>2. \A k \in T \ {i} : exposure'[k] = 0 \/ (k \in S /\ exposure'[k] <= exposure[k])
    BY <1>1, <1>2, <1>5
  <2>3. Total(exposure', T \ {i}) <= Total(exposure, S)
    BY <1>1, <2>1, <2>2, RowsAssumption, TotalCompare
  <2>4. CASE i \in T
    <3>1. Total(exposure', T) = exposure'[i] + Total(exposure', T \ {i})
      BY <1>1, <2>4, RowsAssumption, TotalRemove
    <3> QED
      BY <1>1, <1>2, <1>4, <2>1, <2>3, <2>4, <3>1
  <2>5. CASE i \notin T
    <3>1. T \ {i} = T
      BY <2>5
    <3> QED
      BY <1>1, <1>4, <2>3, <3>1
  <2> QED
    BY <2>4, <2>5
<1>6. ASSUME NEW m \in 1 .. LastMonth
      PROVE  Total(exposure', {k \in Requests : requests'[k].startedIn = m}) <= MonthlyBudget
  <2> DEFINE S == {k \in Requests : requests[k].startedIn = m}
             T == {k \in Requests : requests'[k].startedIn = m}
  <2>1. S \in SUBSET Requests /\ T \in SUBSET Requests /\ (\A k \in T : k = i \/ k \in S)
        /\ (m # month => i \notin T) /\ (m = month => S = StartedThisMonth)
    BY <1>2 DEF StartedThisMonth
  <2>2. Total(exposure, S) <= MonthlyBudget
    BY ExposedTotal
  <2> HIDE DEF S, T
  <2>3. CASE m # month
    BY <1>1, <1>4, <1>5, <2>1, <2>2, <2>3 DEF T
  <2>4. CASE m = month
    <3>1. ~(Total(exposure, S) + Reservation > MonthlyBudget)
      BY <1>2, <1>4, <2>1, <2>4 DEF CapReached
    <3>2. Total(exposure', T) <= Total(exposure, S) + Reservation
      BY <1>5, <2>1
    <3>3. Total(exposure', T) <= MonthlyBudget
      BY <1>1, <1>4, <2>1, <3>1, <3>2
    <3> QED
      BY <3>3 DEF T
  <2> QED
    BY <2>3, <2>4
<1>7. ASSUME NEW b \in Bills
      PROVE  Total(exposure', {k \in Requests : requests'[k].bill = b}) <= BillBudget
  <2> DEFINE S == {k \in Requests : requests[k].bill = b}
             T == {k \in Requests : requests'[k].bill = b}
  <2>1. S \in SUBSET Requests /\ T \in SUBSET Requests /\ (\A k \in T : k = i \/ k \in S)
        /\ (b # requests[i].bill => i \notin T) /\ S = OfBill(b)
    BY <1>2 DEF OfBill
  <2>2. Total(exposure, S) <= BillBudget
    BY ExposedTotal
  <2> HIDE DEF S, T
  <2>3. CASE b # requests[i].bill
    BY <1>1, <1>4, <1>5, <2>1, <2>2, <2>3 DEF T
  <2>4. CASE b = requests[i].bill
    <3>1. ~(Total(exposure, S) + Reservation > BillBudget)
      BY <1>2, <1>4, <2>1, <2>4 DEF CapReached
    <3>2. Total(exposure', T) <= Total(exposure, S) + Reservation
      BY <1>5, <2>1
    <3>3. Total(exposure', T) <= BillBudget
      BY <1>1, <1>4, <2>1, <3>1, <3>2
    <3> QED
      BY <3>3 DEF T
  <2> QED
    BY <2>3, <2>4
<1> QED
  BY <1>6, <1>7, ExposedTotal

\* The ledger whose costs are recorded, and the limits it keeps to
Limited ==
    /\ SpendLedger /\ AnswersSettled
    /\ CostsRecorded /\ FailureSlotsWithinCap /\ SpendWithinBudgets

\* Before any request nothing was spent and nothing failed
LEMMA LimitedInit == Init => Limited
<1> SUFFICES ASSUME Init PROVE Limited
  OBVIOUS
<1>1. SpendLedger /\ AnswersSettled
  BY LedgerInit, TrackedInit
<1>2. /\ \A i \in Requests : requests[i] = NoRow /\ exposure[i] = 0
      /\ exposure \in [Requests -> Nat]
  BY DEF Init
<1>3. CostsRecorded
  BY <1>2 DEF CostsRecorded, NoRow, BudgetCost, Started
<1>4. FailureSlotsWithinCap
  <2>1. \A m \in 1 .. LastMonth : SlotsOf(requests, m) = {}
    BY <1>2 DEF SlotsOf, NoRow
  <2> QED
    BY <2>1, SlotsCounted, FS_EmptySet, LimitsAssumption
<1>5. ASSUME NEW S \in SUBSET Requests
      PROVE  Total(exposure, S) = 0
  <2>1. Total(exposure, S) <= Total(exposure, {})
    BY <1>2, RowsAssumption, TotalCompare
  <2>2. Total(exposure, {}) = 0
    BY FS_EmptySet, TotalUnfolds
  <2>3. Total(exposure, S) \in Nat
    BY <1>2, RowsAssumption, TotalType
  <2> QED
    BY <2>1, <2>2, <2>3
<1>6. SpendWithinBudgets
  <2>1. MonthlyBudget >= 0 /\ BillBudget >= 0
    BY LimitsAssumption
  <2>2. \A m : {i \in Requests : requests[i].startedIn = m} \in SUBSET Requests
    OBVIOUS
  <2>3. \A b : {i \in Requests : requests[i].bill = b} \in SUBSET Requests
    OBVIOUS
  <2> QED
    BY <1>5, <2>1, <2>2, <2>3, ExposedTotal
<1> QED
  BY <1>1, <1>3, <1>4, <1>6 DEF Limited

\* In every reachable state the ledger counts what the provider may have charged, and the
\* limits hold
THEOREM LimitedInvariant == Spec => []Limited
<1>1. Limited /\ [Next]_vars => Limited'
  BY LedgerInductive, SettledInductive, CostsInductive, SlotsInductive, CheapTotals,
     ClaimTotals DEF Limited
<1> QED
  BY <1>1, LimitedInit, PTL DEF Spec

\* Failed, ambiguous and running requests of one month never exceed the failure cap
THEOREM FailuresWithinCap == Spec => []FailureSlotsWithinCap
<1>1. Limited => FailureSlotsWithinCap
  BY DEF Limited
<1> QED
  BY <1>1, LimitedInvariant, PTL

\* What the provider may have charged never exceeds the budget of a month or of a bill
THEOREM SpendStaysWithinBudgets == Spec => []SpendWithinBudgets
<1>1. Limited => SpendWithinBudgets
  BY DEF Limited
<1> QED
  BY <1>1, LimitedInvariant, PTL
=============================================================================
