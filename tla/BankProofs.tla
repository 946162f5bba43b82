------------------------------ MODULE BankProofs ------------------------------
(* That the rows of bank transfers tell what the bank did, for every set of   *)
(* payments and handlers, every plan and any number of retries and faults.    *)
EXTENDS BankTransfers, SequenceTheorems, TLAPS

-----------------------------------------------------------------------------
(* The invariant *)

\* The transfers handler h has yet to finish.
Holds(h) == {job[h].left[i] : i \in 1..Len(job[h].left)}

\* Every transfer is in the hands of one handler, once.
HeldOnce ==
    /\ \A h \in Handlers : job[h].at = "idle" => job[h].left = << >>
    /\ \A h \in Handlers : \A i, j \in 1..Len(job[h].left) :
          job[h].left[i] = job[h].left[j] => i = j
    /\ \A g, h \in Handlers : g # h => Holds(g) \cap Holds(h) = {}

\* The transfers nobody has come to yet have no row.
Unstarted ==
    /\ \A p \in Payments \ asked : \A i \in 1..Len(Plan[p]) :
          transfer[Plan[p][i]] = "none" /\ \A h \in Handlers : Plan[p][i] \notin Holds(h)
    /\ \A h \in Handlers : \A i \in 2..Len(job[h].left) : transfer[job[h].left[i]] = "none"

\* What a handler doing j knows of its transfer's row, of how often the bank has
\* executed it, and of the executions whose success was not stored.
Knows(j, r, m, d) ==
    /\ r = IF j.at \in {"sign", "insert"} /\ ~j.retry THEN "none" ELSE "PENDING"
    /\ m = IF j.answer = "SUCCESS" THEN d + 1 ELSE d
    /\ j.answer # "none" => j.at = "settle"
    /\ j.retry => Len(j.left) = 1 /\ j.at # "insert"

HeadsKnown ==
    \A h \in AtWork : Knows(job[h], transfer[Xfer(h)], moved[Xfer(h)], doubts[Xfer(h)])

\* What is true of a transfer no handler works on.
Settled(r, m, d) == m = IF r = "COMPLETED" THEN d + 1 ELSE d

\* The row of a transfer without a handler is final, or was left as it is.
RestAgrees ==
    \A x \in Transfers : (\A h \in AtWork : Xfer(h) # x) =>
        Settled(transfer[x], moved[x], doubts[x])

BankInv == TypeOK /\ HeldOnce /\ Unstarted /\ HeadsKnown /\ RestAgrees

-----------------------------------------------------------------------------
(* Sequences *)

\* The first and the other transfers of a list.
LEMMA Lists ==
    ASSUME NEW S, NEW s \in Seq(S), s # << >>
    PROVE  /\ Len(s) \in Nat \ {0} /\ Head(s) = s[1] /\ s[1] \in S
           /\ Tail(s) \in Seq(S) /\ Len(Tail(s)) = Len(s) - 1
           /\ \A i \in 1..Len(Tail(s)) : Tail(s)[i] = s[i + 1]
           /\ \A i \in 1..Len(s) : s[i] \in S
OBVIOUS

\* A list of more than one has a rest.
LEMMA Rest ==
    ASSUME NEW S, NEW s \in Seq(S), Len(s) > 1
    PROVE  s # << >> /\ Tail(s) # << >>
<1>1. s # << >>
  OBVIOUS
<1>2. Len(Tail(s)) = Len(s) - 1 /\ Len(s) \in Nat
  BY <1>1, Lists
<1>3. Len(s) - 1 # 0
  <2>1. \A n \in Nat : n > 1 => n - 1 # 0
    OBVIOUS
  <2>. QED BY <1>2, <2>1
<1>4. Len(<< >>) = 0
  OBVIOUS
<1>5. Tail(s) # << >>
  BY <1>2, <1>3, <1>4
<1>. QED BY <1>1, <1>5

-----------------------------------------------------------------------------
(* One handler's step *)

\* What handler h has left after a step: the same, all but the first, or nothing.
Shrinks(h, j) ==
    /\ job[h].left # << >>
    /\ job' = [job EXCEPT ![h] = j] /\ j \in JobRecord
    /\ j.left \in {job[h].left, Tail(job[h].left), << >>}
    /\ j.at = "idle" <=> j.left = << >>

\* It has taken no transfer from another, and none twice.
LEMMA ShrinkHeld ==
    ASSUME TypeOK, HeldOnce, NEW h \in Handlers, NEW j, Shrinks(h, j)
    PROVE  /\ HeldOnce' /\ \A g \in Handlers : Holds(g)' \subseteq Holds(g)
           /\ \A i \in 2..Len(j.left) : \E k \in 2..Len(job[h].left) : j.left[i] = job[h].left[k]
           /\ Xfer(h) \in Holds(h) /\ Xfer(h) = job[h].left[1]
           /\ j.left # << >> /\ j.left # job[h].left => Head(j.left) # Xfer(h)
<1> DEFINE s == job[h].left
<1>1. s \in Seq(Transfers) /\ s # << >>
  BY DEF TypeOK, JobRecord, Shrinks
<1>2. /\ Len(s) \in Nat \ {0} /\ Head(s) = s[1]
      /\ Tail(s) \in Seq(Transfers) /\ Len(Tail(s)) = Len(s) - 1
      /\ \A i \in 1..Len(Tail(s)) : Tail(s)[i] = s[i + 1]
  BY <1>1, Lists
<1>3. job'[h] = j /\ \A g \in Handlers \ {h} : job'[g] = job[g]
  BY DEF TypeOK, Shrinks
<1>4. \A a, b \in 1..Len(s) : s[a] = s[b] => a = b
  BY DEF HeldOnce
<1>0. Xfer(h) = s[1] /\ Xfer(h) \in Holds(h)
  BY <1>2 DEF Xfer, Holds
<1>5. CASE j.left = s
  <2>1. \A g \in Handlers : job'[g].left = job[g].left
    BY <1>3, <1>5
  <2>2. \A g \in Handlers : Holds(g)' = Holds(g)
    BY <2>1 DEF Holds
  <2>3. \A g \in Handlers : job'[g].at = "idle" => job'[g].left = << >>
    BY <1>3 DEF HeldOnce, Shrinks
  <2>4. HeldOnce'
    BY <2>1, <2>2, <2>3 DEF HeldOnce
  <2>. QED BY <1>0, <1>5, <2>2, <2>4
<1>6. CASE j.left = Tail(s)
  <2>1. \A i \in 1..Len(j.left) : i + 1 \in 1..Len(s) /\ j.left[i] = s[i + 1]
    BY <1>2, <1>6
  <2>2. \A a, b \in 1..Len(j.left) : j.left[a] = j.left[b] => a = b
    <3>1. \A a, b \in 1..Len(j.left) : s[a + 1] = s[b + 1] => a + 1 = b + 1
      BY <1>4, <2>1
    <3>2. Len(j.left) \in Nat
      BY <1>2, <1>6
    <3>3. \A a, b \in 1..Len(j.left) : a + 1 = b + 1 => a = b
      BY <3>2
    <3>. QED BY <2>1, <3>1, <3>3
  <2>3. Holds(h)' \subseteq Holds(h)
    BY <1>3, <2>1 DEF Holds
  <2>4. \A g \in Handlers : Holds(g)' \subseteq Holds(g)
    BY <1>3, <2>3 DEF Holds
  <2>5. j.left # << >> => Head(j.left) # Xfer(h)
    <3>1. j.left # << >> => Head(j.left) = j.left[1] /\ 1 \in 1..Len(j.left)
      BY <1>2, <1>6, Lists
    <3>. QED BY <1>2, <1>4, <2>1, <3>1 DEF Xfer
  <2>6. HeldOnce'
    <3>1. \A g \in Handlers : \A a, b \in 1..Len(job'[g].left) :
             job'[g].left[a] = job'[g].left[b] => a = b
      BY <1>3, <2>2 DEF HeldOnce
    <3>2. \A f, g \in Handlers : f # g => Holds(f)' \cap Holds(g)' = {}
      BY <2>4 DEF HeldOnce
    <3>3. \A g \in Handlers : job'[g].at = "idle" => job'[g].left = << >>
      BY <1>3 DEF HeldOnce, Shrinks
    <3>. QED BY <3>1, <3>2, <3>3 DEF HeldOnce
  <2>7. \A i \in 2..Len(j.left) : \E k \in 2..Len(s) : j.left[i] = s[k]
    BY <1>2, <2>1
  <2>. QED BY <1>0, <2>4, <2>5, <2>6, <2>7
<1>7. CASE j.left = << >>
  <2>1. Len(j.left) = 0
    BY <1>7
  <2>2. \A g \in Handlers : Holds(g)' \subseteq Holds(g)
    BY <1>3, <2>1 DEF Holds
  <2>3. HeldOnce'
    <3>1. \A g \in Handlers : \A a, b \in 1..Len(job'[g].left) :
             job'[g].left[a] = job'[g].left[b] => a = b
      BY <1>3, <2>1 DEF HeldOnce
    <3>2. \A f, g \in Handlers : f # g => Holds(f)' \cap Holds(g)' = {}
      BY <2>2 DEF HeldOnce
    <3>3. \A g \in Handlers : job'[g].at = "idle" => job'[g].left = << >>
      BY <1>3, <1>7 DEF HeldOnce
    <3>. QED BY <3>1, <3>2, <3>3 DEF HeldOnce
  <2>. QED BY <1>0, <1>7, <2>1, <2>2, <2>3
<1>. QED BY <1>5, <1>6, <1>7 DEF Shrinks

\* What is planned is a transfer.
LEMMA Planned ==
    ASSUME PlansApart, NEW p \in Payments, NEW i \in 1..Len(Plan[p])
    PROVE  Plan[p][i] \in Transfers
<1>1. Plan[p] \in Seq(Transfers) /\ Plan[p] # << >>
  BY DEF PlansApart
<1>. QED BY <1>1, Lists

\* A step that knows what becomes of its own transfer keeps the invariant.
LEMMA StepBank ==
    ASSUME PlansApart, BankInv, NEW h \in Handlers, NEW j, Shrinks(h, j),
           transfer' \in [Transfers -> TransactionStatus], moved' \in [Transfers -> Nat],
           doubts' \in [Transfers -> Nat], asked' = asked, retries' \in Nat, faults' \in Nat,
           stranded' \subseteq Transfers,
           \A y \in Transfers \ {Xfer(h)} :
              transfer'[y] = transfer[y] /\ moved'[y] = moved[y] /\ doubts'[y] = doubts[y],
           j.left = job[h].left
              => Knows(j, transfer'[Xfer(h)], moved'[Xfer(h)], doubts'[Xfer(h)]),
           j.left # job[h].left
              => Settled(transfer'[Xfer(h)], moved'[Xfer(h)], doubts'[Xfer(h)]),
           (j.left # job[h].left /\ j.left # << >>)
              => j.at = "sign" /\ j.retry = FALSE /\ j.answer = "none"
    PROVE  BankInv'
<1> DEFINE x == Xfer(h)
<1>0. TypeOK /\ HeldOnce /\ Unstarted /\ HeadsKnown /\ RestAgrees
  BY DEF BankInv
<1>1. job'[h] = j /\ \A g \in Handlers \ {h} : job'[g] = job[g]
  BY <1>0 DEF TypeOK, Shrinks
<1>2. /\ HeldOnce' /\ \A g \in Handlers : Holds(g)' \subseteq Holds(g)
      /\ \A i \in 2..Len(j.left) : \E k \in 2..Len(job[h].left) : j.left[i] = job[h].left[k]
      /\ x \in Holds(h) /\ x = job[h].left[1]
      /\ j.left # << >> /\ j.left # job[h].left => Head(j.left) # x
  BY <1>0, ShrinkHeld
<1>3. job[h].left \in Seq(Transfers) /\ job[h].left # << >> /\ h \in AtWork
  BY <1>0 DEF TypeOK, JobRecord, Shrinks, HeldOnce, AtWork
<1>4. x \in Transfers
  BY <1>2, <1>3, Lists
<1>5. TypeOK'
  <2>1. job' \in [Handlers -> JobRecord]
    BY <1>0 DEF TypeOK, Shrinks
  <2>2. \A g \in Handlers : job'[g].at # "idle" => job'[g].left # << >>
    BY <1>0, <1>1 DEF TypeOK, AtWork, Shrinks
  <2>3. asked' \subseteq Payments
    BY <1>0 DEF TypeOK
  <2>. QED BY <2>1, <2>2, <2>3 DEF TypeOK, AtWork
<1>6. \A g \in AtWork : Xfer(g) \in Holds(g)
  <2> TAKE g \in AtWork
  <2>1. job[g].left \in Seq(Transfers) /\ job[g].left # << >>
    BY <1>0 DEF TypeOK, JobRecord, AtWork
  <2>. QED BY <2>1, Lists DEF Xfer, Holds
<1>7. \A g \in Handlers \ {h} : x \notin Holds(g)
  BY <1>0, <1>2 DEF HeldOnce
<1>8. \A g \in Handlers \ {h} : (g \in AtWork' <=> g \in AtWork) /\ Xfer(g)' = Xfer(g)
  BY <1>1 DEF AtWork, Xfer
<1>9. Unstarted'
  <2>1. \A p \in Payments \ asked : \A i \in 1..Len(Plan[p]) :
           transfer'[Plan[p][i]] = "none" /\ \A g \in Handlers : Plan[p][i] \notin Holds(g)'
    <3> TAKE p \in Payments \ asked
    <3> TAKE i \in 1..Len(Plan[p])
    <3>1. transfer[Plan[p][i]] = "none" /\ \A g \in Handlers : Plan[p][i] \notin Holds(g)
      BY <1>0 DEF Unstarted
    <3>2. Plan[p][i] # x
      BY <1>2, <3>1
    <3>3. Plan[p][i] \in Transfers
      BY Planned
    <3>4. transfer'[Plan[p][i]] = transfer[Plan[p][i]]
      BY <3>2, <3>3
    <3>. QED BY <1>2, <3>1, <3>4
  <2>2. \A g \in Handlers : \A i \in 2..Len(job'[g].left) : transfer'[job'[g].left[i]] = "none"
    <3> TAKE g \in Handlers
    <3>1. CASE g = h
      <4> TAKE i \in 2..Len(job'[g].left)
      <4>1. PICK k \in 2..Len(job[h].left) : j.left[i] = job[h].left[k]
        BY <1>1, <1>2, <3>1
      <4>2. transfer[job[h].left[k]] = "none" /\ job[h].left[k] # x /\ job[h].left[k] \in Transfers
        BY <1>0, <1>2, <1>3, Lists DEF Unstarted, HeldOnce
      <4>. QED BY <1>1, <3>1, <4>1, <4>2
    <3>2. CASE g # h
      <4>0. job[g].left \in Seq(Transfers)
        BY <1>0 DEF TypeOK, JobRecord
      <4> TAKE i \in 2..Len(job'[g].left)
      <4>1. i \in 2..Len(job[g].left) /\ job'[g].left[i] = job[g].left[i]
        BY <1>1, <3>2
      <4>2. i \in 1..Len(job[g].left)
        BY <4>0, <4>1
      <4>3. job[g].left[i] \in Transfers
        BY <4>0, <4>2
      <4>5. job[g].left[i] \in Holds(g)
        BY <4>2 DEF Holds
      <4>4. transfer[job[g].left[i]] = "none"
        BY <1>0, <4>1 DEF Unstarted
      <4>. QED BY <1>7, <3>2, <4>1, <4>3, <4>4, <4>5
    <3>. QED BY <3>1, <3>2
  <2>. QED BY <2>1, <2>2 DEF Unstarted
<1>10. HeadsKnown'
  <2>1. \A g \in AtWork' : Knows(job'[g], transfer'[Xfer(g)'], moved'[Xfer(g)'], doubts'[Xfer(g)'])
    <3> TAKE g \in AtWork'
    <3>0. g \in Handlers
      BY DEF AtWork
    <3>1. CASE g # h
      <4>1. g \in AtWork /\ Xfer(g)' = Xfer(g) /\ job'[g] = job[g]
        BY <1>1, <1>8, <3>0, <3>1
      <4>2. Xfer(g) # x /\ Xfer(g) \in Transfers
        <5>1. job[g].left \in Seq(Transfers) /\ job[g].left # << >>
          BY <1>0, <4>1, <3>0 DEF TypeOK, JobRecord
        <5>. QED BY <1>6, <1>7, <3>0, <3>1, <4>1, <5>1, Lists DEF Xfer
      <4>. QED BY <1>0, <4>1, <4>2 DEF HeadsKnown
    <3>2. CASE g = h /\ j.left = job[h].left
      BY <1>1, <3>2 DEF Xfer
    <3>3. CASE g = h /\ j.left # job[h].left
      <4>1. j.left # << >>
        BY <1>1, <3>3 DEF AtWork, Shrinks
      <4>2. j.left = Tail(job[h].left)
        BY <3>3, <4>1 DEF Shrinks
      <4>3. Head(j.left) = job[h].left[2] /\ 2 \in 2..Len(job[h].left)
        <5>1. /\ Len(job[h].left) \in Nat \ {0} /\ Tail(job[h].left) \in Seq(Transfers)
              /\ Len(j.left) = Len(job[h].left) - 1
              /\ \A i \in 1..Len(j.left) : j.left[i] = job[h].left[i + 1]
          BY <1>3, <4>2, Lists
        <5>2. j.left \in Seq(Transfers)
          BY <4>2, <5>1
        <5>3. Len(j.left) \in Nat \ {0} /\ Head(j.left) = j.left[1]
          BY <4>1, <5>2, Lists
        <5>4. 1 \in 1..Len(j.left) /\ 2 \in 2..Len(job[h].left)
          <6>1. \A m, n \in Nat \ {0} : m = n - 1 => 1 \in 1..m /\ 2 \in 2..n
            OBVIOUS
          <6>. QED BY <5>1, <5>3, <6>1
        <5>5. j.left[1] = job[h].left[1 + 1]
          BY <5>1, <5>4
        <5>. QED BY <5>3, <5>4, <5>5
      <4> DEFINE y == Head(j.left)
      <4>4. y \in Transfers /\ y \in Holds(h) /\ y # x
        <5>1. 2 \in 1..Len(job[h].left)
          BY <1>3, <4>3, Lists
        <5>2. y \in Transfers
          BY <1>3, <4>3, <5>1, Lists
        <5>3. y \in Holds(h)
          BY <4>3, <5>1 DEF Holds
        <5>4. y # x
          BY <1>2, <3>3, <4>1
        <5>. QED BY <5>2, <5>3, <5>4
      <4>5. transfer[y] = "none"
        BY <1>0, <4>3 DEF Unstarted
      <4>6. \A f \in AtWork : Xfer(f) # y
        <5> TAKE f \in AtWork
        <5>1. f \in Handlers
          BY DEF AtWork
        <5>2. CASE f = h
          BY <4>4, <5>2
        <5>3. CASE f # h
          BY <1>0, <1>6, <4>4, <5>1, <5>3 DEF HeldOnce
        <5>. QED BY <5>2, <5>3
      <4>7. moved[y] = doubts[y]
        BY <1>0, <4>4, <4>5, <4>6 DEF RestAgrees, Settled
      <4>8. transfer'[y] = "none" /\ moved'[y] = doubts'[y]
        BY <4>4, <4>5, <4>7
      <4>9. Knows(j, transfer'[y], moved'[y], doubts'[y])
        BY <3>3, <4>1, <4>8 DEF Knows
      <4>10. Xfer(g)' = y
        BY <1>1, <3>3 DEF Xfer
      <4>. QED BY <1>1, <3>3, <4>9, <4>10
    <3>. QED BY <3>1, <3>2, <3>3
  <2>. QED BY <2>1 DEF HeadsKnown
<1>11. RestAgrees'
  <2>1. ASSUME NEW y \in Transfers, \A g \in AtWork' : Xfer(g)' # y
        PROVE  Settled(transfer'[y], moved'[y], doubts'[y])
    <3>1. CASE y = x
      <4>1. j.left # job[h].left
        <5>1. SUFFICES ASSUME j.left = job[h].left PROVE FALSE
          OBVIOUS
        <5>2. h \in AtWork' /\ Xfer(h)' = x
          BY <1>1, <1>3, <5>1 DEF AtWork, Xfer, Shrinks
        <5>. QED BY <2>1, <3>1, <5>2
      <4>. QED BY <3>1, <4>1
    <3>2. CASE y # x
      <4>1. \A g \in AtWork : Xfer(g) # y
        <5> TAKE g \in AtWork
        <5>1. g \in Handlers
          BY DEF AtWork
        <5>. QED BY <1>8, <2>1, <3>2, <5>1
      <4>2. Settled(transfer[y], moved[y], doubts[y])
        BY <1>0, <4>1 DEF RestAgrees
      <4>. QED BY <3>2, <4>2
    <3>. QED BY <3>1, <3>2
  <2>. QED BY <2>1 DEF RestAgrees
<1>. QED BY <1>2, <1>5, <1>9, <1>10, <1>11 DEF BankInv

-----------------------------------------------------------------------------
(* The steps of a handler *)

\* Where a handler at work stands.
LEMMA Standing ==
    ASSUME BankInv, NEW h \in Handlers, job[h].at # "idle"
    PROVE  /\ TypeOK /\ HeldOnce /\ h \in AtWork
           /\ job[h] \in JobRecord /\ job[h].left \in Seq(Transfers) /\ job[h].left # << >>
           /\ Xfer(h) \in Transfers /\ transfer[Xfer(h)] \in TransactionStatus
           /\ moved[Xfer(h)] \in Nat /\ doubts[Xfer(h)] \in Nat
           /\ Knows(job[h], transfer[Xfer(h)], moved[Xfer(h)], doubts[Xfer(h)])
<1>1. TypeOK /\ HeldOnce /\ HeadsKnown /\ h \in AtWork
  BY DEF BankInv, AtWork
<1>2. job[h] \in JobRecord /\ job[h].left # << >>
  BY <1>1 DEF TypeOK
<1>3. job[h].left \in Seq(Transfers)
  BY <1>2 DEF JobRecord
<1>4. Xfer(h) \in Transfers
  BY <1>2, <1>3, Lists DEF Xfer
<1>5. /\ transfer[Xfer(h)] \in TransactionStatus
      /\ moved[Xfer(h)] \in Nat /\ doubts[Xfer(h)] \in Nat
  BY <1>1, <1>4 DEF TypeOK
<1>. QED BY <1>1, <1>2, <1>3, <1>4, <1>5 DEF HeadsKnown

\* It has what the bank answered.
LEMMA Answered ==
    ASSUME TypeOK, NEW h \in Handlers, job[h].left # << >>, NEW a \in Answers,
           job' = [job EXCEPT ![h].at = "settle", ![h].answer = a]
    PROVE  \E j : /\ Shrinks(h, j) /\ j.left = job[h].left
                  /\ j.at = "settle" /\ j.retry = job[h].retry /\ j.answer = a
<1> DEFINE j == [job[h] EXCEPT !.at = "settle", !.answer = a]
<1>1. job[h] \in JobRecord
  BY DEF TypeOK
<1>2. /\ j \in JobRecord /\ j.left = job[h].left
      /\ j.at = "settle" /\ j.retry = job[h].retry /\ j.answer = a
  BY <1>1 DEF JobRecord
<1>3. job' = [job EXCEPT ![h] = j]
  BY DEF TypeOK
<1>4. Shrinks(h, j)
  BY <1>2, <1>3 DEF Shrinks
<1>. QED BY <1>2, <1>4

\* It moves on to the next step with the same transfer.
LEMMA GoesTo ==
    ASSUME TypeOK, NEW h \in Handlers, job[h].left # << >>,
           NEW at \in {"sign", "insert", "history", "post", "settle"}, GoTo(h, at)
    PROVE  \E j : /\ Shrinks(h, j) /\ j.left = job[h].left
                  /\ j.at = at /\ j.retry = job[h].retry /\ j.answer = job[h].answer
<1> DEFINE j == [job[h] EXCEPT !.at = at]
<1>1. job[h] \in JobRecord
  BY DEF TypeOK
<1>2. /\ j \in JobRecord /\ j.left = job[h].left
      /\ j.at = at /\ j.retry = job[h].retry /\ j.answer = job[h].answer
  BY <1>1 DEF JobRecord
<1>3. job' = [job EXCEPT ![h] = j]
  BY DEF TypeOK, GoTo
<1>4. Shrinks(h, j)
  BY <1>2, <1>3 DEF Shrinks
<1>. QED BY <1>2, <1>4

\* It is done with a transfer and goes on with the next one, or stops.
LEMMA LetsGo ==
    ASSUME TypeOK, NEW h \in Handlers, job[h].left # << >>,
           Proceed(h) \/ job' = [job EXCEPT ![h] = Idle]
    PROVE  \E j : /\ Shrinks(h, j) /\ j.left # job[h].left
                  /\ j.left # << >> => j.at = "sign" /\ j.retry = FALSE /\ j.answer = "none"
<1> DEFINE s == job[h].left
           n == [Idle EXCEPT !.at = "sign", !.left = Tail(s)]
<1>1. s \in Seq(Transfers)
  BY DEF TypeOK, JobRecord
<1>2. CASE Proceed(h) /\ Len(s) > 1
  <2>1. Tail(s) # << >> /\ Tail(s) \in Seq(Transfers)
    BY <1>1, <1>2, Rest, Lists
  <2>2. Tail(s) # s
    <3>1. Len(s) \in Nat /\ Len(Tail(s)) = Len(s) - 1
      BY <1>1, Lists
    <3>2. \A m \in Nat : m # m - 1
      OBVIOUS
    <3>. QED BY <3>1, <3>2
  <2>3. n \in JobRecord /\ n.left = Tail(s) /\ n.at = "sign" /\ n.retry = FALSE /\ n.answer = "none"
    BY <2>1 DEF Idle, JobRecord, Answers
  <2>4. job' = [job EXCEPT ![h] = n]
    BY <1>2 DEF Proceed, TypeOK
  <2>5. Shrinks(h, n)
    BY <2>1, <2>3, <2>4 DEF Shrinks
  <2>. QED BY <2>2, <2>3, <2>5
<1>3. CASE job' = [job EXCEPT ![h] = Idle]
  <2>1. Idle \in JobRecord /\ Idle.left = << >> /\ Idle.at = "idle"
    BY DEF Idle, JobRecord, Answers
  <2>2. Shrinks(h, Idle)
    BY <1>3, <2>1 DEF Shrinks
  <2>. QED BY <2>1, <2>2
<1>4. CASE Proceed(h) /\ ~ Len(s) > 1
  <2>1. job' = [job EXCEPT ![h] = Idle]
    BY <1>4 DEF Proceed, TypeOK
  <2>. QED BY <1>3, <2>1
<1>. QED BY <1>2, <1>3, <1>4

\* The types of what most steps leave alone.
LEMMA Kept ==
    ASSUME TypeOK
    PROVE  /\ transfer \in [Transfers -> TransactionStatus] /\ moved \in [Transfers -> Nat]
           /\ doubts \in [Transfers -> Nat] /\ stranded \subseteq Transfers
           /\ retries \in Nat /\ faults \in Nat /\ faults + 1 \in Nat
BY DEF TypeOK

\* A handler gives a transfer up, and what the bank answered is lost.
LEMMA GivenUp ==
    ASSUME PlansApart, BankInv, NEW h \in Handlers, job[h].at # "idle",
           Proceed(h) \/ job' = [job EXCEPT ![h] = Idle],
           stranded' \subseteq Transfers, faults' \in Nat,
           UNCHANGED <<transfer, moved, asked, retries>>,
           doubts' = IF job[h].answer = "SUCCESS"
                     THEN [doubts EXCEPT ![Xfer(h)] = @ + 1] ELSE doubts
    PROVE  BankInv'
<1> DEFINE x == Xfer(h)
<1>1. /\ TypeOK /\ HeldOnce /\ job[h].left # << >> /\ x \in Transfers
      /\ transfer[x] \in TransactionStatus /\ moved[x] \in Nat /\ doubts[x] \in Nat
      /\ Knows(job[h], transfer[x], moved[x], doubts[x])
  BY Standing
<1>2. PICK j : /\ Shrinks(h, j) /\ j.left # job[h].left
               /\ j.left # << >> => j.at = "sign" /\ j.retry = FALSE /\ j.answer = "none"
  BY <1>1, LetsGo
<1>3. /\ doubts' \in [Transfers -> Nat] /\ \A y \in Transfers \ {x} : doubts'[y] = doubts[y]
      /\ doubts'[x] = IF job[h].answer = "SUCCESS" THEN doubts[x] + 1 ELSE doubts[x]
  BY <1>1, Kept
<1>4. Settled(transfer'[x], moved'[x], doubts'[x])
  BY <1>1, <1>3 DEF Knows, Settled
<1>5. /\ transfer' \in [Transfers -> TransactionStatus] /\ moved' \in [Transfers -> Nat]
      /\ retries' \in Nat
  BY <1>1, Kept
<1>. QED BY <1>2, <1>3, <1>4, <1>5, StepBank

\* The transfers given up are transfers.
LEMMA StrandIn ==
    ASSUME TypeOK, NEW x \in Transfers, Strand(x)
    PROVE  stranded' \subseteq Transfers
BY DEF TypeOK, Strand

\* A transfer that is signed, or given up, keeps its row and its executions.
LEMMA SignBank ==
    ASSUME PlansApart, BankInv, NEW h \in Handlers, Sign(h)
    PROVE  BankInv'
<1> DEFINE x == Xfer(h)
<1>0. job[h].at = "sign" /\ job[h].at # "idle"
  BY DEF Sign
<1>1. /\ TypeOK /\ HeldOnce /\ job[h] \in JobRecord /\ job[h].left # << >> /\ x \in Transfers
      /\ Knows(job[h], transfer[x], moved[x], doubts[x])
  BY <1>0, Standing
<1>2. job[h].answer = "none"
  BY <1>0, <1>1 DEF Knows
<1>3. CASE GoTo(h, IF job[h].retry THEN "history" ELSE "insert") /\ UNCHANGED <<faults, stranded>>
  <2> DEFINE at == IF job[h].retry THEN "history" ELSE "insert"
  <2>1. PICK j : /\ Shrinks(h, j) /\ j.left = job[h].left
                 /\ j.at = at /\ j.retry = job[h].retry /\ j.answer = job[h].answer
    BY <1>1, <1>3, GoesTo
  <2>2. UNCHANGED <<transfer, moved, asked, retries, doubts, faults, stranded>>
    BY <1>3 DEF Sign
  <2>3. Knows(j, transfer'[x], moved'[x], doubts'[x])
    BY <1>0, <1>1, <1>2, <2>1, <2>2 DEF Knows, JobRecord
  <2>. QED BY <1>1, <2>1, <2>2, <2>3, Kept, StepBank
<1>4. CASE Fault /\ Proceed(h) /\ Strand(x)
  <2>1. UNCHANGED <<transfer, moved, asked, retries, doubts>>
    BY DEF Sign
  <2>2. stranded' \subseteq Transfers /\ faults' \in Nat
    BY <1>1, <1>4, StrandIn, Kept DEF Fault
  <2>. QED BY <1>0, <1>2, <1>4, <2>1, <2>2, GivenUp
<1>. QED BY <1>3, <1>4 DEF Sign

\* A new row is PENDING, and nothing was executed for it before.
LEMMA InsertBank ==
    ASSUME PlansApart, BankInv, NEW h \in Handlers, Insert(h)
    PROVE  BankInv'
<1> DEFINE x == Xfer(h)
<1>0. job[h].at = "insert" /\ job[h].at # "idle"
  BY DEF Insert
<1>1. /\ TypeOK /\ HeldOnce /\ job[h] \in JobRecord /\ job[h].left # << >> /\ x \in Transfers
      /\ Knows(job[h], transfer[x], moved[x], doubts[x])
  BY <1>0, Standing
<1>2. job[h].answer = "none" /\ ~ job[h].retry
  BY <1>0, <1>1 DEF Knows, JobRecord
<1>3. CASE transfer' = [transfer EXCEPT ![x] = "PENDING"] /\ GoTo(h, "history") /\ UNCHANGED faults
  <2>1. PICK j : /\ Shrinks(h, j) /\ j.left = job[h].left
                 /\ j.at = "history" /\ j.retry = job[h].retry /\ j.answer = job[h].answer
    BY <1>1, <1>3, GoesTo
  <2>2. UNCHANGED <<moved, asked, retries, doubts, faults, stranded>>
    BY <1>3 DEF Insert
  <2>3. /\ transfer' \in [Transfers -> TransactionStatus] /\ transfer'[x] = "PENDING"
        /\ \A y \in Transfers \ {x} : transfer'[y] = transfer[y]
    BY <1>1, <1>3, Kept DEF TransactionStatus
  <2>4. Knows(j, transfer'[x], moved'[x], doubts'[x])
    BY <1>0, <1>1, <1>2, <2>1, <2>2, <2>3 DEF Knows
  <2>. QED BY <1>1, <2>1, <2>2, <2>3, <2>4, Kept, StepBank
<1>4. CASE Fault /\ Proceed(h) /\ UNCHANGED transfer
  <2>1. UNCHANGED <<transfer, moved, asked, retries, doubts, stranded>>
    BY <1>4 DEF Insert
  <2>2. stranded' \subseteq Transfers /\ faults' \in Nat
    BY <1>1, <1>4, <2>1, Kept DEF Fault
  <2>. QED BY <1>0, <1>2, <1>4, <2>1, <2>2, GivenUp
<1>. QED BY <1>3, <1>4 DEF Insert

\* A history that is saved, or fails to be, changes neither row nor books.
LEMMA SaveHistoryBank ==
    ASSUME PlansApart, BankInv, NEW h \in Handlers, SaveHistory(h)
    PROVE  BankInv'
<1> DEFINE x == Xfer(h)
<1>0. job[h].at = "history" /\ job[h].at # "idle"
  BY DEF SaveHistory
<1>1. /\ TypeOK /\ HeldOnce /\ job[h] \in JobRecord /\ job[h].left # << >> /\ x \in Transfers
      /\ Knows(job[h], transfer[x], moved[x], doubts[x])
  BY <1>0, Standing
<1>2. job[h].answer = "none"
  BY <1>0, <1>1 DEF Knows
<1>3. CASE GoTo(h, "post") /\ UNCHANGED <<faults, stranded>>
  <2>1. PICK j : /\ Shrinks(h, j) /\ j.left = job[h].left
                 /\ j.at = "post" /\ j.retry = job[h].retry /\ j.answer = job[h].answer
    BY <1>1, <1>3, GoesTo
  <2>2. UNCHANGED <<transfer, moved, asked, retries, doubts, faults, stranded>>
    BY <1>3 DEF SaveHistory
  <2>3. Knows(j, transfer'[x], moved'[x], doubts'[x])
    BY <1>0, <1>1, <1>2, <2>1, <2>2 DEF Knows
  <2>. QED BY <1>1, <2>1, <2>2, <2>3, Kept, StepBank
<1>4. CASE Fault /\ Proceed(h) /\ Strand(x)
  <2>1. UNCHANGED <<transfer, moved, asked, retries, doubts>>
    BY DEF SaveHistory
  <2>2. stranded' \subseteq Transfers /\ faults' \in Nat
    BY <1>1, <1>4, StrandIn, Kept DEF Fault
  <2>. QED BY <1>0, <1>2, <1>4, <2>1, <2>2, GivenUp
<1>. QED BY <1>3, <1>4 DEF SaveHistory

\* An execution whose answer is lost is a doubt; one that is answered is what the row
\* is about to show.
LEMMA PostBank ==
    ASSUME PlansApart, BankInv, NEW h \in Handlers, Post(h)
    PROVE  BankInv'
<1> DEFINE x == Xfer(h)
           Answer(a) == job' = [job EXCEPT ![h].at = "settle", ![h].answer = a]
<1>0. job[h].at = "post" /\ job[h].at # "idle"
  BY DEF Post
<1>1. /\ TypeOK /\ HeldOnce /\ job[h] \in JobRecord /\ job[h].left # << >> /\ x \in Transfers
      /\ moved[x] \in Nat /\ doubts[x] \in Nat
      /\ Knows(job[h], transfer[x], moved[x], doubts[x])
  BY <1>0, Standing
<1>2. job[h].answer = "none" /\ transfer[x] = "PENDING" /\ moved[x] = doubts[x]
  BY <1>0, <1>1 DEF Knows
<1>3. ASSUME NEW a \in Answers, Answer(a), faults' \in Nat,
             moved' = [moved EXCEPT ![x] = @ + 1] \/ moved' = moved,
             a = "SUCCESS" => moved' # moved, a = "REFUSED" => moved' = moved
      PROVE  BankInv'
  <2>1. PICK j : /\ Shrinks(h, j) /\ j.left = job[h].left
                 /\ j.at = "settle" /\ j.retry = job[h].retry /\ j.answer = a
    BY <1>1, <1>3, Answered
  <2>2. UNCHANGED <<transfer, asked, retries, stranded>>
    BY DEF Post
  <2>3. job'[h] = j
    BY <1>1, <2>1 DEF Shrinks, TypeOK
  <2>4. doubts' = IF moved' # moved /\ a = "none" THEN [doubts EXCEPT ![x] = @ + 1] ELSE doubts
    BY <2>1, <2>3 DEF Post
  <2>5. /\ moved' \in [Transfers -> Nat] /\ \A y \in Transfers \ {x} : moved'[y] = moved[y]
        /\ moved'[x] = IF moved' # moved THEN moved[x] + 1 ELSE moved[x]
    BY <1>1, <1>3, Kept
  <2>6. /\ doubts' \in [Transfers -> Nat] /\ \A y \in Transfers \ {x} : doubts'[y] = doubts[y]
        /\ doubts'[x] = IF moved' # moved /\ a = "none" THEN doubts[x] + 1 ELSE doubts[x]
    BY <1>1, <2>4, Kept
  <2>7. moved'[x] = IF a = "SUCCESS" THEN doubts'[x] + 1 ELSE doubts'[x]
    <3>1. CASE a = "SUCCESS"
      BY <1>2, <1>3, <2>5, <2>6, <3>1
    <3>2. CASE a = "REFUSED"
      BY <1>2, <1>3, <2>5, <2>6, <3>2
    <3>3. CASE a = "none"
      BY <1>2, <1>3, <2>5, <2>6, <3>3
    <3>. QED BY <1>3, <3>1, <3>2, <3>3 DEF Answers
  <2>8. Knows(j, transfer'[x], moved'[x], doubts'[x])
    BY <1>0, <1>1, <1>2, <2>1, <2>2, <2>7 DEF Knows
  <2>. QED BY <1>1, <1>3, <2>1, <2>2, <2>5, <2>6, <2>8, Kept, StepBank
<1>4. faults \in Nat /\ faults + 1 \in Nat
  BY <1>1, Kept
<1>5. [moved EXCEPT ![x] = @ + 1] # moved
  BY <1>1, Kept
<1>6. CASE moved' = [moved EXCEPT ![x] = @ + 1] /\ Answer("SUCCESS") /\ UNCHANGED faults
  BY <1>3, <1>4, <1>5, <1>6 DEF Answers
<1>7. CASE moved' = [moved EXCEPT ![x] = @ + 1] /\ Answer("none") /\ Fault
  BY <1>3, <1>4, <1>7 DEF Answers, Fault
<1>8. CASE UNCHANGED moved /\ Answer("REFUSED") /\ UNCHANGED faults
  BY <1>3, <1>4, <1>8 DEF Answers
<1>9. CASE UNCHANGED moved /\ Answer("none") /\ Fault
  BY <1>3, <1>4, <1>9 DEF Answers, Fault
<1>. QED BY <1>6, <1>7, <1>8, <1>9 DEF Post

\* The row takes the answer of the bank; a success that cannot be stored is a doubt.
LEMMA SettleBank ==
    ASSUME PlansApart, BankInv, NEW h \in Handlers, Settle(h)
    PROVE  BankInv'
<1> DEFINE x == Xfer(h)
<1>0. job[h].at = "settle" /\ job[h].at # "idle"
  BY DEF Settle
<1>1. /\ TypeOK /\ HeldOnce /\ job[h] \in JobRecord /\ job[h].left # << >> /\ x \in Transfers
      /\ transfer[x] \in TransactionStatus /\ moved[x] \in Nat /\ doubts[x] \in Nat
      /\ Knows(job[h], transfer[x], moved[x], doubts[x])
  BY <1>0, Standing
<1>2. /\ UNCHANGED <<moved, asked, retries>> /\ Proceed(h)
      /\ transfer \in [Transfers -> TransactionStatus] /\ moved \in [Transfers -> Nat]
      /\ doubts \in [Transfers -> Nat]
      /\ stranded \subseteq Transfers /\ faults \in Nat /\ faults + 1 \in Nat /\ retries \in Nat
  BY <1>1, Kept DEF Settle
<1>3. ASSUME NEW r \in {"COMPLETED", "FAILED"}, transfer' = [transfer EXCEPT ![x] = r],
             faults' \in Nat, stranded' = stranded, doubts' \in [Transfers -> Nat],
             \A y \in Transfers \ {x} : doubts'[y] = doubts[y],
             Settled(r, moved[x], doubts'[x])
      PROVE  BankInv'
  <2>1. PICK j : /\ Shrinks(h, j) /\ j.left # job[h].left
                 /\ j.left # << >> => j.at = "sign" /\ j.retry = FALSE /\ j.answer = "none"
    BY <1>1, <1>2, LetsGo
  <2>2. /\ transfer' \in [Transfers -> TransactionStatus] /\ transfer'[x] = r
        /\ \A y \in Transfers \ {x} : transfer'[y] = transfer[y]
    BY <1>1, <1>2, <1>3 DEF TransactionStatus
  <2>. QED BY <1>2, <1>3, <2>1, <2>2, StepBank
<1>4. CASE /\ transfer' = [transfer EXCEPT ![x] = Outcome(job[h].answer)]
           /\ UNCHANGED <<faults, doubts, stranded>>
  <2>1. Outcome(job[h].answer) \in {"COMPLETED", "FAILED"}
    BY DEF Outcome
  <2>2. Settled(Outcome(job[h].answer), moved[x], doubts'[x])
    BY <1>1, <1>4 DEF Outcome, Settled, Knows
  <2>. QED BY <1>2, <1>3, <1>4, <2>1, <2>2
<1>5. ASSUME Fault, doubts' = IF job[h].answer = "SUCCESS"
                              THEN [doubts EXCEPT ![x] = @ + 1] ELSE doubts,
             \/ transfer' = [transfer EXCEPT ![x] = "FAILED"] /\ UNCHANGED stranded
             \/ UNCHANGED transfer /\ Strand(x)
      PROVE  BankInv'
  <2>1. faults' \in Nat
    BY <1>2, <1>5 DEF Fault
  <2>2. CASE transfer' = [transfer EXCEPT ![x] = "FAILED"] /\ UNCHANGED stranded
    <3>1. /\ doubts' \in [Transfers -> Nat] /\ \A y \in Transfers \ {x} : doubts'[y] = doubts[y]
          /\ doubts'[x] = IF job[h].answer = "SUCCESS" THEN doubts[x] + 1 ELSE doubts[x]
      BY <1>1, <1>2, <1>5
    <3>2. Settled("FAILED", moved[x], doubts'[x])
      BY <1>1, <3>1 DEF Knows, Settled
    <3>. QED BY <1>3, <2>1, <2>2, <3>1, <3>2
  <2>3. CASE UNCHANGED transfer /\ Strand(x)
    <3>1. stranded' \subseteq Transfers
      BY <1>1, <2>3, StrandIn
    <3>. QED BY <1>0, <1>2, <1>5, <2>1, <2>3, <3>1, GivenUp
  <2>. QED BY <1>5, <2>2, <2>3
<1>. QED BY <1>4, <1>5 DEF Settle

\* A success that stops with its handler is a doubt.
LEMMA StopBank ==
    ASSUME PlansApart, BankInv, NEW h \in Handlers, Stop(h)
    PROVE  BankInv'
<1>1. job[h].at # "idle" /\ Fault /\ Strand(Xfer(h))
  BY DEF Stop
<1>2. TypeOK /\ Xfer(h) \in Transfers
  BY <1>1, Standing
<1>3. stranded' \subseteq Transfers /\ faults' \in Nat
  BY <1>1, <1>2, StrandIn, Kept DEF Fault
<1>4. /\ UNCHANGED <<transfer, moved, asked, retries>> /\ job' = [job EXCEPT ![h] = Idle]
      /\ doubts' = IF job[h].answer = "SUCCESS"
                   THEN [doubts EXCEPT ![Xfer(h)] = @ + 1] ELSE doubts
  BY DEF Stop
<1>. QED BY <1>1, <1>3, <1>4, GivenUp

-----------------------------------------------------------------------------
(* The beginnings *)

\* A handler that takes on transfers nobody holds keeps the invariant.
LEMMA BeginBank ==
    ASSUME PlansApart, BankInv, NEW h \in Handlers, job[h].at = "idle",
           NEW s \in Seq(Transfers), s # << >>, NEW j \in JobRecord, j.at = "sign", j.left = s,
           j.answer = "none", j.retry => Len(s) = 1, job' = [job EXCEPT ![h] = j],
           \A i, k \in 1..Len(s) : s[i] = s[k] => i = k,
           \A i \in 1..Len(s) : \A g \in Handlers : s[i] \notin Holds(g),
           asked \subseteq asked', asked' \subseteq Payments,
           \A p \in Payments \ asked' : \A i \in 1..Len(Plan[p]) :
              \A k \in 1..Len(s) : Plan[p][i] # s[k],
           \A i \in 2..Len(s) : transfer[s[i]] = "none",
           transfer[s[1]] # "COMPLETED", transfer' \in [Transfers -> TransactionStatus],
           transfer'[s[1]] = IF j.retry THEN "PENDING" ELSE "none",
           \A y \in Transfers \ {s[1]} : transfer'[y] = transfer[y],
           UNCHANGED <<moved, doubts, stranded>>, faults' \in Nat, retries' \in Nat
    PROVE  BankInv'
<1> DEFINE x == s[1]
<1>0. TypeOK /\ HeldOnce /\ Unstarted /\ HeadsKnown /\ RestAgrees
  BY DEF BankInv
<1>1. job'[h] = j /\ \A g \in Handlers \ {h} : job'[g] = job[g]
  BY <1>0 DEF TypeOK
<1>2. /\ Len(s) \in Nat \ {0} /\ Head(s) = x /\ x \in Transfers
      /\ \A i \in 1..Len(s) : s[i] \in Transfers
  BY Lists
<1>3. 1 \in 1..Len(s)
  BY <1>2
<1>4. \A g \in Handlers : x \notin Holds(g)
  BY <1>3
<1>5. TypeOK'
  <2>2. job' \in [Handlers -> JobRecord]
    BY <1>0 DEF TypeOK
  <2>3. \A g \in Handlers : job'[g].at # "idle" => job'[g].left # << >>
    BY <1>0, <1>1 DEF TypeOK, AtWork
  <2>. QED BY <1>0, <2>2, <2>3 DEF TypeOK, AtWork
<1>6. /\ \A g \in Handlers \ {h} : Holds(g)' = Holds(g)
      /\ Holds(h)' = {s[i] : i \in 1..Len(s)}
  BY <1>1 DEF Holds
<1>7. HeldOnce'
  <2>1. \A g \in Handlers : job'[g].at = "idle" => job'[g].left = << >>
    BY <1>0, <1>1 DEF HeldOnce
  <2>2. \A g \in Handlers : \A a, b \in 1..Len(job'[g].left) :
           job'[g].left[a] = job'[g].left[b] => a = b
    BY <1>0, <1>1 DEF HeldOnce
  <2>3. \A g \in Handlers \ {h} : Holds(g)' \cap Holds(h)' = {}
    BY <1>6
  <2>4. \A f, g \in Handlers : f # g => Holds(f)' \cap Holds(g)' = {}
    BY <1>0, <1>6, <2>3 DEF HeldOnce
  <2>. QED BY <2>1, <2>2, <2>4 DEF HeldOnce
<1>8. Unstarted'
  <2>1. \A p \in Payments \ asked' : \A i \in 1..Len(Plan[p]) :
           transfer'[Plan[p][i]] = "none" /\ \A g \in Handlers : Plan[p][i] \notin Holds(g)'
    <3> TAKE p \in Payments \ asked'
    <3> TAKE i \in 1..Len(Plan[p])
    <3>1. transfer[Plan[p][i]] = "none" /\ \A g \in Handlers : Plan[p][i] \notin Holds(g)
      BY <1>0 DEF Unstarted
    <3>2. Plan[p][i] \in Transfers /\ Plan[p][i] # x
      BY <1>3, Planned
    <3>3. \A k \in 1..Len(s) : Plan[p][i] # s[k]
      OBVIOUS
    <3>4. \A g \in Handlers : Plan[p][i] \notin Holds(g)'
      BY <1>6, <3>1, <3>3
    <3>5. transfer'[Plan[p][i]] = transfer[Plan[p][i]]
      BY <3>2
    <3>. QED BY <3>1, <3>4, <3>5
  <2>2. \A g \in Handlers : \A i \in 2..Len(job'[g].left) : transfer'[job'[g].left[i]] = "none"
    <3> TAKE g \in Handlers
    <3>1. CASE g = h
      <4>1. \A i \in 2..Len(s) : s[i] \in Transfers /\ s[i] # x
        BY <1>2, <1>3
      <4>2. \A i \in 2..Len(s) : transfer'[s[i]] = "none"
        BY <4>1
      <4>. QED BY <1>1, <3>1, <4>2
    <3>2. CASE g # h
      <4>0. job[g].left \in Seq(Transfers)
        BY <1>0 DEF TypeOK, JobRecord
      <4> TAKE i \in 2..Len(job'[g].left)
      <4>1. i \in 2..Len(job[g].left) /\ job'[g].left[i] = job[g].left[i]
        BY <1>1, <3>2
      <4>2. i \in 1..Len(job[g].left)
        BY <4>0, <4>1
      <4>3. job[g].left[i] \in Transfers
        BY <4>0, <4>2
      <4>4. job[g].left[i] \in Holds(g)
        BY <4>2 DEF Holds
      <4>5. transfer[job[g].left[i]] = "none"
        BY <1>0, <4>1 DEF Unstarted
      <4>. QED BY <1>4, <4>1, <4>3, <4>4, <4>5
    <3>. QED BY <3>1, <3>2
  <2>. QED BY <2>1, <2>2 DEF Unstarted
<1>9. \A g \in AtWork : g # h /\ g \in AtWork' /\ Xfer(g)' = Xfer(g) /\ Xfer(g) \in Transfers \ {x}
  <2> TAKE g \in AtWork
  <2>1. g \in Handlers /\ g # h
    BY DEF AtWork
  <2>2. job[g].left \in Seq(Transfers) /\ job[g].left # << >>
    BY <1>0 DEF TypeOK, JobRecord, AtWork
  <2>3. Xfer(g) \in Holds(g) /\ Xfer(g) \in Transfers
    BY <2>2, Lists DEF Xfer, Holds
  <2>. QED BY <1>1, <1>4, <2>1, <2>3 DEF AtWork, Xfer
<1>10. moved[x] = doubts[x]
  <2>1. Settled(transfer[x], moved[x], doubts[x])
    BY <1>0, <1>2, <1>9 DEF RestAgrees
  <2>. QED BY <2>1 DEF Settled
<1>11. Xfer(h)' = x
  BY <1>1, <1>2 DEF Xfer
<1>12. HeadsKnown'
  <2>1. \A g \in AtWork' : Knows(job'[g], transfer'[Xfer(g)'], moved'[Xfer(g)'], doubts'[Xfer(g)'])
    <3> TAKE g \in AtWork'
    <3>0. g \in Handlers
      BY DEF AtWork
    <3>1. CASE g # h
      <4>1. g \in AtWork /\ job'[g] = job[g]
        BY <1>1, <3>0, <3>1 DEF AtWork
      <4>. QED BY <1>0, <1>9, <4>1 DEF HeadsKnown
    <3>2. CASE g = h
      <4>1. Knows(j, transfer'[x], moved[x], doubts[x])
        BY <1>10 DEF Knows
      <4>. QED BY <1>1, <1>11, <3>2, <4>1
    <3>. QED BY <3>1, <3>2
  <2>. QED BY <2>1 DEF HeadsKnown
<1>13. RestAgrees'
  <2>1. ASSUME NEW y \in Transfers, \A g \in AtWork' : Xfer(g)' # y
        PROVE  Settled(transfer'[y], moved'[y], doubts'[y])
    <3>1. h \in AtWork'
      BY <1>1 DEF AtWork
    <3>2. y # x
      BY <1>11, <2>1, <3>1
    <3>3. \A g \in AtWork : Xfer(g) # y
      BY <1>9, <2>1
    <3>4. Settled(transfer[y], moved[y], doubts[y])
      BY <1>0, <3>3 DEF RestAgrees
    <3>. QED BY <3>2, <3>4
  <2>. QED BY <2>1 DEF RestAgrees
<1>. QED BY <1>5, <1>7, <1>8, <1>12, <1>13 DEF BankInv

\* A payment is begun, or its driver's IBAN cannot be asked for.
LEMMA PayBank ==
    ASSUME PlansApart, BankInv, NEW h \in Handlers, NEW p \in Payments, Pay(h, p)
    PROVE  BankInv'
<1> DEFINE s == Plan[p]
<1>0. /\ TypeOK /\ HeldOnce /\ Unstarted /\ HeadsKnown /\ RestAgrees
      /\ transfer \in [Transfers -> TransactionStatus] /\ retries \in Nat /\ faults \in Nat
      /\ faults + 1 \in Nat
  BY Kept DEF BankInv
<1>1. /\ p \notin asked /\ asked' = asked \cup {p} /\ job[h].at = "idle"
      /\ UNCHANGED <<transfer, moved, retries, doubts, stranded>>
  BY DEF Pay
<1>2. s \in Seq(Transfers) /\ s # << >>
  BY DEF PlansApart
<1>3. 1 \in 1..Len(s)
  BY <1>2, Lists
<1>4. \A i \in 1..Len(s) : transfer[s[i]] = "none" /\ \A g \in Handlers : s[i] \notin Holds(g)
  BY <1>0, <1>1 DEF Unstarted
<1>5. CASE /\ job' = [job EXCEPT ![h] = [Idle EXCEPT !.at = "sign", !.left = s]]
           /\ UNCHANGED faults
  <2> DEFINE j == [Idle EXCEPT !.at = "sign", !.left = s]
  <2>1. /\ j \in JobRecord /\ j.at = "sign" /\ j.left = s /\ j.answer = "none"
        /\ j.retry = FALSE
    BY <1>2 DEF Idle, JobRecord, Answers
  <2>9. job' = [job EXCEPT ![h] = j]
    BY <1>5
  <2> HIDE DEF j
  <2>2. \A q \in Payments \ asked' : \A i \in 1..Len(Plan[q]) :
           \A k \in 1..Len(s) : Plan[q][i] # s[k]
    BY <1>1 DEF PlansApart
  <2>3. \A i, k \in 1..Len(s) : s[i] = s[k] => i = k
    BY DEF PlansApart
  <2>4. \A i \in 2..Len(s) : transfer[s[i]] = "none"
    <3>1. Len(s) \in Nat
      BY <1>2, Lists
    <3>2. \A i \in 2..Len(s) : i \in 1..Len(s)
      BY <3>1
    <3>. QED BY <1>4, <3>2
  <2>5. transfer[s[1]] = "none" /\ transfer'[s[1]] = "none"
    BY <1>1, <1>3, <1>4
  <2>6. asked \subseteq asked' /\ asked' \subseteq Payments
    BY <1>0, <1>1 DEF TypeOK
  <2>7. faults' \in Nat /\ retries' \in Nat
    BY <1>0, <1>1, <1>5
  <2>8. \A i \in 1..Len(s) : \A g \in Handlers : s[i] \notin Holds(g)
    BY <1>4
  <2>. QED BY <1>0, <1>1, <1>2, <2>1, <2>2, <2>3, <2>4, <2>5, <2>6, <2>7, <2>8, <2>9, BeginBank
<1>6. CASE Fault /\ UNCHANGED job
  <2>1. faults' \in Nat
    BY <1>0, <1>6 DEF Fault
  <2>2. TypeOK'
    BY <1>0, <1>1, <1>6, <2>1 DEF TypeOK, AtWork
  <2>3. HeldOnce'
    <3>1. \A g \in Handlers : Holds(g)' = Holds(g)
      BY <1>6 DEF Holds
    <3>. QED BY <1>0, <1>6, <3>1 DEF HeldOnce
  <2>4. Unstarted'
    BY <1>0, <1>1, <1>6 DEF Unstarted, Holds
  <2>5. HeadsKnown'
    BY <1>0, <1>1, <1>6 DEF HeadsKnown, AtWork, Xfer
  <2>6. RestAgrees'
    BY <1>0, <1>1, <1>6 DEF RestAgrees, AtWork, Xfer
  <2>. QED BY <2>2, <2>3, <2>4, <2>5, <2>6 DEF BankInv
<1>. QED BY <1>5, <1>6 DEF Pay

\* A FAILED transfer has no handler, and is claimed.
LEMMA RetryBank ==
    ASSUME PlansApart, BankInv, NEW h \in Handlers, NEW x \in Transfers, Retry(h, x)
    PROVE  BankInv'
<1> DEFINE s == <<x>>
<1>0. /\ TypeOK /\ HeldOnce /\ Unstarted /\ HeadsKnown /\ RestAgrees
      /\ transfer \in [Transfers -> TransactionStatus] /\ retries \in Nat /\ faults \in Nat
  BY Kept DEF BankInv
<1>1. /\ transfer[x] = "FAILED" /\ transfer' = [transfer EXCEPT ![x] = "PENDING"]
      /\ job[h].at = "idle" /\ retries' = retries + 1
      /\ UNCHANGED <<moved, asked, faults, doubts, stranded>>
      /\ job' = [job EXCEPT ![h] = [Idle EXCEPT !.at = "sign", !.left = s, !.retry = TRUE]]
  BY DEF Retry
<1>3. s \in Seq(Transfers) /\ s # << >> /\ Len(s) = 1 /\ s[1] = x
  OBVIOUS
<1> DEFINE j == [Idle EXCEPT !.at = "sign", !.left = s, !.retry = TRUE]
<1>2. /\ j \in JobRecord /\ j.at = "sign" /\ j.left = s /\ j.answer = "none"
      /\ j.retry = TRUE
  BY <1>3 DEF Idle, JobRecord, Answers
<1>13. job' = [job EXCEPT ![h] = j]
  BY <1>1
<1>4. \A g \in Handlers : x \notin Holds(g)
  <2>1. SUFFICES ASSUME NEW g \in Handlers, x \in Holds(g) PROVE FALSE
    OBVIOUS
  <2>2. PICK i \in 1..Len(job[g].left) : x = job[g].left[i]
    BY <2>1 DEF Holds
  <2>3. job[g].left \in Seq(Transfers)
    BY <1>0 DEF TypeOK, JobRecord
  <2>4. job[g].left # << >>
    BY <2>2, <2>3
  <2>5. job[g].at # "idle"
    BY <1>0, <2>4 DEF HeldOnce
  <2>6. i # 1
    <3>1. Knows(job[g], transfer[Xfer(g)], moved[Xfer(g)], doubts[Xfer(g)])
      BY <2>5, Standing
    <3>2. Xfer(g) = job[g].left[1]
      BY <2>3, <2>4, Lists DEF Xfer
    <3>. QED BY <1>1, <2>2, <3>1, <3>2 DEF Knows
  <2>7. i \in 2..Len(job[g].left)
    BY <2>2, <2>3, <2>6
  <2>. QED BY <1>0, <1>1, <2>2, <2>7 DEF Unstarted
<1>5. \A i \in 1..Len(s) : i = 1 /\ s[i] = x
  BY <1>3
<1>6. \A p \in Payments \ asked' : \A i \in 1..Len(Plan[p]) : Plan[p][i] # x
  BY <1>0, <1>1 DEF Unstarted
<1>7. /\ transfer' \in [Transfers -> TransactionStatus] /\ transfer'[x] = "PENDING"
      /\ \A y \in Transfers \ {x} : transfer'[y] = transfer[y]
  BY <1>0, <1>1 DEF TransactionStatus
<1>8. \A i \in 2..Len(s) : transfer[s[i]] = "none"
  BY <1>3
<1>9. asked \subseteq asked' /\ asked' \subseteq Payments /\ faults' \in Nat /\ retries' \in Nat
  BY <1>0, <1>1 DEF TypeOK
<1>10. \A i, k \in 1..Len(s) : s[i] = s[k] => i = k
  BY <1>5
<1>11. \A i \in 1..Len(s) : \A g \in Handlers : s[i] \notin Holds(g)
  BY <1>4, <1>5
<1>12. \A p \in Payments \ asked' : \A i \in 1..Len(Plan[p]) :
          \A k \in 1..Len(s) : Plan[p][i] # s[k]
  BY <1>5, <1>6
<1>14. /\ transfer[s[1]] # "COMPLETED" /\ transfer'[s[1]] = IF j.retry THEN "PENDING" ELSE "none"
       /\ \A y \in Transfers \ {s[1]} : transfer'[y] = transfer[y]
  BY <1>1, <1>2, <1>3, <1>7
<1>15. job[h].at = "idle" /\ UNCHANGED <<moved, doubts, stranded>>
  BY <1>1
<1> HIDE DEF s, j
<1>. QED BY <1>2, <1>3, <1>7, <1>14, <1>15, <1>8, <1>9, <1>10, <1>11, <1>12, <1>13, BeginBank

-----------------------------------------------------------------------------
(* The theorems *)

\* At first no transfer is known to anybody.
LEMMA InitBank ==
    ASSUME PlansApart, Init
    PROVE  BankInv
<1>1. \A h \in Handlers : job[h] = Idle
  BY DEF Init
<1>2. Idle \in JobRecord /\ Idle.at = "idle" /\ Idle.left = << >>
  BY DEF Idle, JobRecord, Answers
<1>3. AtWork = {} /\ \A h \in Handlers : Holds(h) = {} /\ Len(job[h].left) = 0
  <2>1. AtWork = {}
    BY <1>1, <1>2 DEF AtWork
  <2>2. \A h \in Handlers : Len(job[h].left) = 0
    BY <1>1, <1>2
  <2>. QED BY <2>1, <2>2 DEF Holds
<1>4. TypeOK
  BY <1>2, <1>3 DEF Init, TypeOK, TransactionStatus
<1>5. HeldOnce
  BY <1>1, <1>2, <1>3 DEF HeldOnce
<1>6. Unstarted
  <2>1. \A p \in Payments : \A i \in 1..Len(Plan[p]) : transfer[Plan[p][i]] = "none"
    BY Planned DEF Init
  <2>. QED BY <1>3, <2>1 DEF Unstarted
<1>7. HeadsKnown /\ RestAgrees
  BY <1>3 DEF Init, HeadsKnown, RestAgrees, Settled
<1>. QED BY <1>4, <1>5, <1>6, <1>7 DEF BankInv

\* Every step keeps the invariant.
LEMMA NextBank ==
    ASSUME PlansApart, BankInv, [Next]_bankVars
    PROVE  BankInv'
<1>1. ASSUME NEW h \in Handlers, NEW p \in Payments, Pay(h, p) PROVE BankInv'
  BY <1>1, PayBank
<1>2. ASSUME NEW h \in Handlers, NEW x \in Transfers, Retry(h, x) PROVE BankInv'
  BY <1>2, RetryBank
<1>3. ASSUME NEW h \in Handlers, Sign(h) PROVE BankInv'
  BY <1>3, SignBank
<1>4. ASSUME NEW h \in Handlers, Insert(h) PROVE BankInv'
  BY <1>4, InsertBank
<1>5. ASSUME NEW h \in Handlers, SaveHistory(h) PROVE BankInv'
  BY <1>5, SaveHistoryBank
<1>6. ASSUME NEW h \in Handlers, Post(h) PROVE BankInv'
  BY <1>6, PostBank
<1>7. ASSUME NEW h \in Handlers, Settle(h) PROVE BankInv'
  BY <1>7, SettleBank
<1>8. ASSUME NEW h \in Handlers, Stop(h) PROVE BankInv'
  BY <1>8, StopBank
<1>9. CASE UNCHANGED bankVars
  <2>1. UNCHANGED <<transfer, moved, asked, job, retries, faults, doubts, stranded>>
    BY <1>9 DEF bankVars
  <2>2. TypeOK /\ HeldOnce /\ Unstarted /\ HeadsKnown /\ RestAgrees
    BY DEF BankInv
  <2>3. TypeOK'
    BY <2>1, <2>2 DEF TypeOK, AtWork
  <2>4. HeldOnce'
    <3>1. \A g \in Handlers : Holds(g)' = Holds(g)
      BY <2>1 DEF Holds
    <3>. QED BY <2>1, <2>2, <3>1 DEF HeldOnce
  <2>5. Unstarted'
    BY <2>1, <2>2 DEF Unstarted, Holds
  <2>6. HeadsKnown' /\ RestAgrees'
    BY <2>1, <2>2 DEF HeadsKnown, RestAgrees, AtWork, Xfer
  <2>. QED BY <2>3, <2>4, <2>5, <2>6 DEF BankInv
<1>. QED BY <1>1, <1>2, <1>3, <1>4, <1>5, <1>6, <1>7, <1>8, <1>9 DEF Next, Step

\* What the handlers know is what the books need.
LEMMA BankBooks ==
    ASSUME BankInv
    PROVE  BooksAgree
<1> SUFFICES ASSUME NEW x \in Transfers
             PROVE  /\ transfer[x] = "COMPLETED" => moved[x] = doubts[x] + 1
                    /\ transfer[x] \in {"none", "FAILED"} => moved[x] = doubts[x]
                    /\ moved[x] <= doubts[x] + 1
  BY DEF BooksAgree
<1>1. moved[x] \in Nat /\ doubts[x] \in Nat
  BY DEF BankInv, TypeOK
<1>2. CASE \A h \in AtWork : Xfer(h) # x
  BY <1>1, <1>2 DEF BankInv, RestAgrees, Settled
<1>3. CASE \E h \in AtWork : Xfer(h) = x
  <2>1. PICK h \in AtWork : Xfer(h) = x
    BY <1>3
  <2>2. Knows(job[h], transfer[x], moved[x], doubts[x])
    BY <2>1 DEF BankInv, HeadsKnown
  <2>. QED BY <1>1, <2>2 DEF Knows
<1>. QED BY <1>2, <1>3

\* The rows of the bank's transfers tell what the bank did: COMPLETED was executed
\* once and FAILED not at all, except for executions whose success was not stored,
\* however many payments, handlers, retries and stops there are.
THEOREM BooksAgreeHolds ==
    ASSUME PlansApart
    PROVE  Spec => []BooksAgree
<1>1. Init => BankInv
  BY InitBank
<1>2. BankInv /\ [Next]_bankVars => BankInv'
  BY NextBank
<1>3. BankInv => BooksAgree
  BY BankBooks
<1>. QED BY <1>1, <1>2, <1>3, PTL DEF Spec
=============================================================================
