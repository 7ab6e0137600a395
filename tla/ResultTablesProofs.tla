-------------------------- MODULE ResultTablesProofs --------------------------
(***************************************************************************)
(* Proofs about ResultTables for any number of runs, whatever rows they     *)
(* compute, with inserts and connections that fail anywhere.               *)
(***************************************************************************)
EXTENDS ResultTables, SequenceTheorems, FiniteSetTheorems, FunctionTheorems,
        WellFoundedInduction, TLAPS

(* No element of a sequence is there twice. *)
Distinct(s) == \A i, k \in 1..Len(s) : s[i] = s[k] => i = k

(* What a worker's connection has still to execute. *)
Waiting(n) == {commands[n][i] : i \in 1..Len(commands[n])}

(* Each loop waits for one INSERT at most, and the end is sent once. *)
Sent(n) ==
  /\ Distinct(commands[n])
  /\ \A t \in Table : t \in Waiting(n) => next[n][t] \in 1..Rows[n][t]
  /\ "commit" \in Waiting(n) => phase[n] = "committing"
  /\ "rollback" \in Waiting(n) => phase[n] = "rollingBack"

(* As long as nothing has failed, the transaction has what the loops have done. *)
Inserting(n) ==
  phase[n] = "inserting" =>
    /\ \A t \in Table : /\ next[n][t] \in 1..Rows[n][t] + 1
                        /\ t \in Waiting(n) <=> next[n][t] <= Rows[n][t]
    /\ \E t \in Table : next[n][t] <= Rows[n][t]
    /\ tx[n] = {r \in RowsOf(n) : r.i < next[n][r.table]}

(* The commit is the last command, and finds all rows. *)
Committing(n) ==
  phase[n] = "committing" => commands[n] = <<"commit">> /\ tx[n] = RowsOf(n)

(* A worker that has not begun to insert. *)
Fresh(n) ==
  phase[n] \in {"idle", "running"} =>
    commands[n] = <<>> /\ tx[n] = {} /\ \A t \in Table : next[n][t] = 1

(* Only a failed insert leaves loops behind. *)
Leftovers(n) ==
  /\ FailedToInsert(n) => phase[n] \in {"rollingBack", "failing", "done"}
  /\ phase[n] = "rollingBack" => FailedToInsert(n)
  /\ phase[n] \in {"inserted", "failing", "done"} /\ ~FailedToInsert(n) =>
       commands[n] = <<>>

(* A worker at work has the current run, which it has claimed. *)
Working(n) ==
  /\ phase[n] \notin {"idle", "done"} => current = n /\ status = "CLAIMED"
  /\ n > current \/ (n = current /\ status = "PENDING") => phase[n] = "idle"

(* What is committed of a run. *)
Committed(n) ==
  /\ open[n] <=> phase[n] \in {"inserting", "committing", "rollingBack"}
  /\ phase[n] \in {"idle", "running", "inserting", "committing"} =>
       rows \cap RowsOf(n) = {}
  /\ phase[n] = "inserted" => RowsOf(n) \subseteq rows

(* A client asks for the results of a run that is completed. *)
Asking == polled # None => polled <= current /\ (polled = current => status = "COMPLETED")

Sound(n) ==
  Sent(n) /\ Inserting(n) /\ Committing(n) /\ Fresh(n) /\ Leftovers(n) /\ Working(n)
    /\ Committed(n)

(* The inductive invariant. *)
IInv ==
  /\ TypeOK /\ CompletedIsComplete /\ OthersAllOrNothing /\ AnswersAreOneRun
  /\ \A n \in Run : Sound(n)
  /\ Asking
-------------------------------------------------------------------------------
Commands == Table \cup {"commit", "rollback"}

(* The constants. *)
LEMMA Constants ==
  /\ Run \subseteq Nat \ {0} /\ 0 \notin Run /\ None \notin Run
  /\ \A n \in Run, t \in Table : Rows[n][t] \in Nat
<1> QED
  BY ConstantsAssumption DEF Run

(* The rows a run computes, and nobody else. *)
LEMMA RowFacts ==
  ASSUME NEW n \in Run
  PROVE  /\ \A t \in Table : \A k \in 1..Rows[n][t] :
              [table |-> t, run |-> n, i |-> k] \in RowsOf(n)
         /\ \A r \in RowsOf(n) : /\ r.table \in Table /\ r.run = n
                                 /\ r.i \in 1..Rows[n][r.table]
                                 /\ r = [table |-> r.table, run |-> n, i |-> r.i]
<1>1. ASSUME NEW t \in Table, NEW k \in 1..Rows[n][t]
      PROVE  [table |-> t, run |-> n, i |-> k] \in RowsOf(n)
  BY DEF RowsOf
<1>2. ASSUME NEW r \in RowsOf(n)
      PROVE  /\ r.table \in Table /\ r.run = n
             /\ r.i \in 1..Rows[n][r.table]
             /\ r = [table |-> r.table, run |-> n, i |-> r.i]
  <2>1. PICK t \in Table : \E k \in 1..Rows[n][t] : r = [table |-> t, run |-> n, i |-> k]
    BY DEF RowsOf
  <2> QED
    BY <2>1
<1> QED
  BY <1>1, <1>2

(* Runs have no rows in common. *)
LEMMA RowsDisjoint ==
  ASSUME NEW m \in Run, NEW n \in Run, m # n
  PROVE  RowsOf(m) \cap RowsOf(n) = {}
<1> QED
  BY RowFacts

(* A new command does not wait yet. *)
IsNew(s, more) ==
  \/ more = <<>>
  \/ \E x \in Commands : more = <<x>> /\ (x = Head(s) \/ \A i \in 1..Len(s) : s[i] # x)

(* A queue after its first command has been executed and more have been sent. *)
Moved(s, more, q) ==
  /\ q \in Seq(Commands)
  /\ Distinct(q)
  /\ {q[i] : i \in 1..Len(q)}
       = ({s[i] : i \in 1..Len(s)} \ {Head(s)}) \cup {more[i] : i \in 1..Len(more)}

(* A command has been executed, and one or none takes its place at the end. *)
LEMMA QueueFacts ==
  ASSUME NEW s \in Seq(Commands), s # <<>>, Distinct(s),
         NEW more \in Seq(Commands), IsNew(s, more)
  PROVE  Moved(s, more, Tail(s) \o more)
<1> USE DEF Distinct, IsNew, Moved
<1> DEFINE q == Tail(s) \o more
           l == Len(s)
<1>1. /\ l \in Nat \ {0} /\ Head(s) = s[1] /\ Len(Tail(s)) = l - 1
      /\ \A i \in 1..(l - 1) : Tail(s)[i] = s[i + 1]
      /\ Tail(s) \in Seq(Commands)
  BY EmptySeq
<1>2. CASE more = <<>>
  <2>1. q \in Seq(Commands) /\ Len(q) = l - 1 /\ \A i \in 1..(l - 1) : q[i] = s[i + 1]
    BY <1>1, <1>2
  <2>2. {q[i] : i \in 1..Len(q)} \subseteq {s[i] : i \in 1..l} \ {Head(s)}
    BY <1>1, <2>1
  <2>3. ASSUME NEW j \in 1..l, s[j] # Head(s)
        PROVE  \E i \in 1..Len(q) : q[i] = s[j]
    <3>1. j - 1 \in 1..(l - 1) /\ q[j - 1] = s[j]
      BY <1>1, <2>1, <2>3
    <3> QED
      BY <3>1, <2>1
  <2>4. {more[i] : i \in 1..Len(more)} = {}
    BY <1>2
  <2>5. \A i, k \in 1..Len(q) : q[i] = q[k] => i = k
    BY <1>1, <2>1
  <2>6. {q[i] : i \in 1..Len(q)} = {s[i] : i \in 1..l} \ {Head(s)}
    <3> HIDE DEF q, l
    <3>1. ASSUME NEW x \in {s[i] : i \in 1..l} \ {Head(s)}
          PROVE  \E i \in 1..Len(q) : q[i] = x
      <4>1. PICK j \in 1..l : s[j] = x
        BY <3>1
      <4> QED
        BY <4>1, <3>1, <2>3
    <3>2. {s[i] : i \in 1..l} \ {Head(s)} \subseteq {q[i] : i \in 1..Len(q)}
      BY <3>1, Zenon
    <3> QED
      BY <2>2, <3>2, Zenon
  <2> QED
    BY <2>1, <2>4, <2>5, <2>6
<1>3. CASE \E x \in Commands : more = <<x>> /\ (x = Head(s) \/ \A i \in 1..Len(s) : s[i] # x)
  <2>1. PICK x \in Commands : more = <<x>> /\ (x = Head(s) \/ \A i \in 1..Len(s) : s[i] # x)
    BY <1>3
  <2>2. /\ q \in Seq(Commands) /\ Len(q) = l /\ q[l] = x
        /\ \A i \in 1..(l - 1) : q[i] = s[i + 1]
    BY <1>1, <2>1
  <2>3. \A i \in 2..l : s[i] # x
    BY <1>1, <2>1
  <2> HIDE DEF q, l
  <2>4. \A i, k \in 1..Len(q) : q[i] = q[k] => i = k
    <3> SUFFICES ASSUME NEW i \in 1..l, NEW k \in 1..l, q[i] = q[k]
                 PROVE  i = k
      BY <2>2
    <3> l \in Nat \ {0}
      BY <1>1
    <3>1. CASE i = l /\ k < l
      <4>1. k \in 1..(l - 1) /\ k + 1 \in 2..l
        BY <3>1
      <4>2. q[k] = s[k + 1] /\ q[i] = x
        BY <3>1, <4>1, <2>2
      <4> QED
        BY <4>1, <4>2, <2>3
    <3>2. CASE k = l /\ i < l
      <4>1. i \in 1..(l - 1) /\ i + 1 \in 2..l
        BY <3>2
      <4>2. q[i] = s[i + 1] /\ q[k] = x
        BY <3>2, <4>1, <2>2
      <4> QED
        BY <4>1, <4>2, <2>3
    <3>3. CASE i < l /\ k < l
      <4>1. i \in 1..(l - 1) /\ k \in 1..(l - 1)
        BY <3>3
      <4>2. s[i + 1] = s[k + 1] /\ i + 1 \in 1..l /\ k + 1 \in 1..l
        BY <4>1, <2>2
      <4>3. i + 1 = k + 1
        BY <4>2 DEF l
      <4> QED
        BY <4>1, <4>3
    <3> QED
      BY <3>1, <3>2, <3>3, <1>1
  <2>5. {more[i] : i \in 1..Len(more)} = {x}
    BY <2>1
  <2>6. {q[i] : i \in 1..Len(q)} \subseteq ({s[i] : i \in 1..l} \ {Head(s)}) \cup {x}
    <3> SUFFICES ASSUME NEW i \in 1..l
                 PROVE  q[i] = x \/ (q[i] # Head(s) /\ \E k \in 1..l : q[i] = s[k])
      BY <2>2
    <3>1. CASE i = l
      BY <3>1, <2>2
    <3>2. CASE i < l
      BY <3>2, <2>2, <1>1
    <3> QED
      BY <3>1, <3>2, <1>1
  <2>7. ASSUME NEW j \in 1..l, s[j] # Head(s)
        PROVE  \E i \in 1..Len(q) : q[i] = s[j]
    <3>1. j - 1 \in 1..(l - 1) /\ q[j - 1] = s[j]
      BY <1>1, <2>2, <2>7
    <3> QED
      BY <3>1, <2>2
  <2>8. \E i \in 1..Len(q) : q[i] = x
    BY <2>2, <1>1
  <2>9. {q[i] : i \in 1..Len(q)} = ({s[i] : i \in 1..l} \ {Head(s)}) \cup {x}
    <3>1. ASSUME NEW y \in {s[i] : i \in 1..l} \ {Head(s)}
          PROVE  \E i \in 1..Len(q) : q[i] = y
      <4>1. PICK j \in 1..l : s[j] = y
        BY <3>1
      <4> QED
        BY <4>1, <3>1, <2>7
    <3>2. x \in {q[i] : i \in 1..Len(q)}
      BY <2>8
    <3>3. ({s[i] : i \in 1..l} \ {Head(s)}) \cup {x} \subseteq {q[i] : i \in 1..Len(q)}
      BY <3>1, <3>2
    <3> QED
      BY <2>6, <3>3
  <2> QED
    BY <2>2, <2>4, <2>5, <2>9 DEF q, l
<1> QED
  BY <1>2, <1>3

(* A loop is started for each table that gets rows. *)
LEMMA StartedFacts ==
  ASSUME NEW n \in Run
  PROVE  LET s == Started(n) IN
         /\ s \in Seq(Table)
         /\ Distinct(s)
         /\ {s[i] : i \in 1..Len(s)} = {t \in Table : Rows[n][t] > 0}
         /\ s = <<>> <=> \A t \in Table : Rows[n][t] = 0
<1> DEFINE First(t) == IF Rows[n][t] > 0 THEN <<t>> ELSE <<>>
           Ran(s) == {s[i] : i \in 1..Len(s)}
           Inj(s) == \A i, k \in 1..Len(s) : s[i] = s[k] => i = k
<1>1. \A t \in Table : /\ First(t) \in Seq(Table) /\ Inj(First(t))
                       /\ Ran(First(t)) = {u \in {t} : Rows[n][u] > 0}
  OBVIOUS
<1>2. ASSUME NEW s \in Seq(Table), NEW u \in Seq(Table), Inj(s), Inj(u),
             Ran(s) \cap Ran(u) = {}
      PROVE  s \o u \in Seq(Table) /\ Inj(s \o u) /\ Ran(s \o u) = Ran(s) \cup Ran(u)
  <2> DEFINE q == s \o u
  <2>1. /\ q \in Seq(Table) /\ Len(q) = Len(s) + Len(u)
        /\ Len(s) \in Nat /\ Len(u) \in Nat
        /\ \A i \in 1..Len(s) : q[i] = s[i]
        /\ \A i \in 1..Len(u) : q[Len(s) + i] = u[i]
        /\ \A i \in 1..Len(q) : i > Len(s) => i - Len(s) \in 1..Len(u) /\ q[i] = u[i - Len(s)]
    OBVIOUS
  <2> HIDE DEF q
  <2>2. \A i \in 1..Len(q) : q[i] \in Ran(s) \cup Ran(u)
    <3>1. ASSUME NEW i \in 1..Len(q)
          PROVE  i \in 1..Len(s) \/ i > Len(s)
      BY <2>1
    <3> QED
      BY <3>1, <2>1
  <2>3. ASSUME NEW i \in 1..Len(s)
        PROVE  s[i] \in Ran(q)
    <3>1. i \in 1..Len(q) /\ q[i] = s[i]
      BY <2>1
    <3> QED
      BY <3>1
  <2>4. ASSUME NEW i \in 1..Len(u)
        PROVE  u[i] \in Ran(q)
    <3>1. Len(s) + i \in 1..Len(q) /\ q[Len(s) + i] = u[i]
      BY <2>1
    <3> QED
      BY <3>1
  <2>5. Inj(q)
    <3> SUFFICES ASSUME NEW i \in 1..Len(q), NEW k \in 1..Len(q), q[i] = q[k]
                 PROVE  i = k
      OBVIOUS
    <3>1. CASE i <= Len(s) /\ k <= Len(s)
      BY <3>1, <2>1, <1>2
    <3>2. CASE i > Len(s) /\ k > Len(s)
      <4>1. /\ i - Len(s) \in 1..Len(u) /\ k - Len(s) \in 1..Len(u)
            /\ u[i - Len(s)] = u[k - Len(s)]
        BY <3>2, <2>1
      <4>2. i - Len(s) = k - Len(s)
        BY <4>1, <1>2
      <4> QED
        BY <4>2, <2>1
    <3>3. CASE i <= Len(s) /\ k > Len(s)
      <4> i \in 1..Len(s)
        BY <3>3, <2>1
      <4>1. q[i] = s[i] /\ q[k] = u[k - Len(s)] /\ k - Len(s) \in 1..Len(u)
        BY <3>3, <2>1
      <4>2. q[i] \in Ran(s) /\ q[k] \in Ran(u)
        BY <3>3, <4>1, <2>1
      <4> QED
        BY <4>2, <1>2
    <3>4. CASE i > Len(s) /\ k <= Len(s)
      <4>1. q[k] = s[k] /\ q[i] = u[i - Len(s)] /\ i - Len(s) \in 1..Len(u)
        BY <3>4, <2>1
      <4>2. q[i] \in Ran(u) /\ q[k] \in Ran(s)
        BY <3>4, <4>1, <2>1
      <4> QED
        BY <4>2, <1>2
    <3> QED
      BY <3>1, <3>2, <3>3, <3>4, <2>1
  <2> QED
    BY <2>1, <2>2, <2>3, <2>4, <2>5 DEF q
<1> DEFINE s2 == First("pool") \o First("phase")
           s3 == s2 \o First("component")
           s4 == s3 \o First("winner")
           s5 == s4 \o First("item")
           Good(s, tables) == /\ s \in Seq(Table) /\ Inj(s)
                              /\ Ran(s) = {t \in tables : Rows[n][t] > 0}
<1>3. ASSUME NEW s, NEW tables \in SUBSET Table, NEW t \in Table \ tables, Good(s, tables)
      PROVE  Good(s \o First(t), tables \cup {t})
  <2>1. First(t) \in Seq(Table) /\ Inj(First(t)) /\ Ran(First(t)) = {u \in {t} : Rows[n][u] > 0}
    BY <1>1
  <2>2. Ran(s) \cap Ran(First(t)) = {}
    BY <2>1, <1>3
  <2> HIDE DEF First, Ran, Inj
  <2>3. s \o First(t) \in Seq(Table) /\ Inj(s \o First(t))
        /\ Ran(s \o First(t)) = Ran(s) \cup Ran(First(t))
    BY <1>2, <1>3, <2>1, <2>2
  <2> QED
    BY <2>1, <2>3, <1>3
<1> HIDE DEF First, Good, s2, s3, s4, s5
<1>4. Good(First("pool"), {"pool"})
  BY <1>1 DEF Good, Table
<1>5. Good(s2, {"pool", "phase"})
  <2>1. Good(s2, {"pool"} \cup {"phase"})
    BY <1>3, <1>4 DEF Table, s2
  <2> QED
    BY <2>1
<1>6. Good(s3, {"pool", "phase", "component"})
  <2>1. Good(s3, {"pool", "phase"} \cup {"component"})
    BY <1>3, <1>5 DEF Table, s3
  <2>2. {"pool", "phase"} \cup {"component"} = {"pool", "phase", "component"}
    OBVIOUS
  <2> QED
    BY <2>1, <2>2
<1>7. Good(s4, {"pool", "phase", "component", "winner"})
  <2>1. Good(s4, {"pool", "phase", "component"} \cup {"winner"})
    BY <1>3, <1>6 DEF Table, s4
  <2>2. {"pool", "phase", "component"} \cup {"winner"} = {"pool", "phase", "component", "winner"}
    OBVIOUS
  <2> QED
    BY <2>1, <2>2
<1>8. Good(s5, Table)
  <2>1. Good(s5, {"pool", "phase", "component", "winner"} \cup {"item"})
    BY <1>3, <1>7 DEF Table, s5
  <2>2. {"pool", "phase", "component", "winner"} \cup {"item"} = Table
    BY DEF Table
  <2> QED
    BY <2>1, <2>2
<1>9. Started(n) = s5
  BY DEF Started, s5, s4, s3, s2, First
<1>10. s5 = <<>> <=> \A t \in Table : Rows[n][t] = 0
  <2>1. s5 \in Seq(Table) /\ Ran(s5) = {t \in Table : Rows[n][t] > 0}
    BY <1>8 DEF Good
  <2>2. s5 = <<>> <=> Ran(s5) = {}
    BY <2>1, EmptySeq
  <2>3. \A t \in Table : Rows[n][t] \in Nat
    BY Constants
  <2> QED
    BY <2>1, <2>2, <2>3
<1> QED
  BY <1>8, <1>9, <1>10 DEF Good, Distinct
(* The first command is executed, and its worker sends none or one more. *)
LEMMA SendFacts ==
  ASSUME TypeOK, NEW n \in Run, Sent(n), commands[n] # <<>>,
         NEW more \in Seq(Commands), Send(n, more),
         \/ more = <<>>
         \/ \E x \in Commands : more = <<x>> /\ (x = Head(commands[n]) \/ x \notin Waiting(n))
  PROVE  /\ commands' \in [Run -> Seq(Commands)]
         /\ Distinct(commands'[n])
         /\ Waiting(n)' = (Waiting(n) \ {Head(commands[n])})
                            \cup {more[i] : i \in 1..Len(more)}
         /\ \A m \in Run \ {n} : commands'[m] = commands[m]
<1>1. commands \in [Run -> Seq(Commands)]
  BY DEF TypeOK, Commands
<1> DEFINE s == commands[n]
           q == Tail(s) \o more
<1>2. s \in Seq(Commands) /\ Distinct(s)
  BY <1>1 DEF Sent
<1>3. \A x \in Commands : x \notin Waiting(n) => \A i \in 1..Len(s) : s[i] # x
  BY DEF Waiting
<1>4. IsNew(s, more)
  BY <1>3 DEF IsNew
<1>5. Moved(s, more, q)
  BY <1>2, <1>4, QueueFacts
<1>6. commands' = [commands EXCEPT ![n] = q]
  BY DEF Send
<1> HIDE DEF q
<1>7. commands'[n] = q /\ (\A m \in Run \ {n} : commands'[m] = commands[m])
  BY <1>1, <1>6
<1>8. commands' \in [Run -> Seq(Commands)]
  BY <1>1, <1>5, <1>6 DEF Moved
<1>9. Waiting(n)' = {q[i] : i \in 1..Len(q)}
  BY <1>7 DEF Waiting
<1> QED
  BY <1>5, <1>7, <1>8, <1>9 DEF Waiting, Moved

(* It sends none. *)
LEMMA SendNone ==
  ASSUME TypeOK, NEW n \in Run, Sent(n), commands[n] # <<>>, Send(n, <<>>)
  PROVE  /\ commands' \in [Run -> Seq(Commands)] /\ Distinct(commands'[n])
         /\ Waiting(n)' = Waiting(n) \ {Head(commands[n])}
         /\ \A m \in Run \ {n} : commands'[m] = commands[m]
<1> DEFINE more == <<>>
<1>1. more \in Seq(Commands) /\ more = <<>> /\ {more[i] : i \in 1..Len(more)} = {}
  OBVIOUS
<1>2. Send(n, more)
  OBVIOUS
<1> HIDE DEF more
<1> QED
  BY <1>1, <1>2, SendFacts

(* It sends one. *)
LEMMA SendOne ==
  ASSUME TypeOK, NEW n \in Run, Sent(n), commands[n] # <<>>,
         NEW x \in Commands, x = Head(commands[n]) \/ x \notin Waiting(n), Send(n, <<x>>)
  PROVE  /\ commands' \in [Run -> Seq(Commands)] /\ Distinct(commands'[n])
         /\ Waiting(n)' = (Waiting(n) \ {Head(commands[n])}) \cup {x}
         /\ \A m \in Run \ {n} : commands'[m] = commands[m]
<1> DEFINE more == <<x>>
<1>1. more \in Seq(Commands) /\ more = <<x>> /\ {more[i] : i \in 1..Len(more)} = {x}
  OBVIOUS
<1>2. Send(n, more)
  OBVIOUS
<1> HIDE DEF more
<1> QED
  BY <1>1, <1>2, SendFacts

(* The command that is executed has been waiting. *)
LEMMA HeadWaits ==
  ASSUME TypeOK, NEW n \in Run, commands[n] # <<>>
  PROVE  Head(commands[n]) \in Waiting(n) /\ Head(commands[n]) \in Commands
<1>1. commands[n] \in Seq(Commands)
  BY DEF TypeOK, Commands
<1>2. 1 \in 1..Len(commands[n]) /\ Head(commands[n]) = commands[n][1]
  BY <1>1, EmptySeq
<1> QED
  BY <1>1, <1>2 DEF Waiting
-------------------------------------------------------------------------------
(* A step of one worker leaves the others, and their committed rows, as they are. *)
Untouched(n) ==
  \A m \in Run \ {n} :
    /\ phase'[m] = phase[m] /\ commands'[m] = commands[m] /\ next'[m] = next[m]
    /\ open'[m] = open[m] /\ tx'[m] = tx[m]
    /\ rows' \cap RowsOf(m) = rows \cap RowsOf(m)

(* A worker that takes a step disturbs no other. *)
LEMMA OthersKept ==
  ASSUME IInv, NEW n \in Run, NEW m \in Run \ {n}, Untouched(n),
         current' = current, status' = status \/ current = n
  PROVE  Sound(m)'
<1>0. Sound(m)
  BY DEF IInv
<1>1. /\ phase'[m] = phase[m] /\ commands'[m] = commands[m] /\ next'[m] = next[m]
      /\ open'[m] = open[m] /\ tx'[m] = tx[m]
      /\ rows' \cap RowsOf(m) = rows \cap RowsOf(m)
  BY DEF Untouched
<1>2. Waiting(m)' = Waiting(m) /\ FailedToInsert(m)' = FailedToInsert(m)
  BY <1>1 DEF Waiting, FailedToInsert
<1>3. Sent(m)'
  BY <1>0, <1>1, <1>2 DEF Sound, Sent
<1>4. Inserting(m)'
  BY <1>0, <1>1, <1>2 DEF Sound, Inserting, RowsOf
<1>5. Committing(m)' /\ Fresh(m)' /\ Leftovers(m)'
  BY <1>0, <1>1, <1>2 DEF Sound, Committing, Fresh, Leftovers, RowsOf
<1>6. Working(m)'
  BY <1>0, <1>1 DEF Sound, Working
<1>7. Committed(m)'
  <2>1. RowsOf(m)' = RowsOf(m)
    BY DEF RowsOf
  <2>2. RowsOf(m) \subseteq rows => RowsOf(m) \subseteq rows'
    BY <1>1
  <2> QED
    BY <1>0, <1>1, <2>1, <2>2 DEF Sound, Committed
<1> QED
  BY <1>3, <1>4, <1>5, <1>6, <1>7 DEF Sound

(* What remains to be shown of a step of a worker. *)
LEMMA WorkerKeeps ==
  ASSUME IInv, NEW n \in Run, Untouched(n), current' = current, rows \subseteq rows',
         UNCHANGED clientVars, TypeOK', Sound(n)',
         status' = status \/ (current = n /\ status # "COMPLETED"),
         status' = "COMPLETED" => status = "COMPLETED" \/ RowsOf(current) \subseteq rows',
         FailedToInsert(n) => FailedToInsert(n)',
         rows' \cap RowsOf(n) # {} /\ ~FailedToInsert(n)' =>
           n = current /\ RowsOf(n) \subseteq rows'
  PROVE  IInv'
<1>1. \A m \in Run : RowsOf(m)' = RowsOf(m)
  BY DEF RowsOf
<1>2. \A m \in Run : Sound(m)'
  BY OthersKept
<1>3. CompletedIsComplete'
  BY DEF IInv, CompletedIsComplete, RowsOf
<1>4. ASSUME NEW m \in Run \ {n}
      PROVE  /\ FailedToInsert(m)' <=> FailedToInsert(m)
             /\ rows' \cap RowsOf(m) = rows \cap RowsOf(m)
  BY DEF Untouched, FailedToInsert
<1>5. OthersAllOrNothing'
  <2> SUFFICES ASSUME NEW m \in Run, (rows \cap RowsOf(m))' # {}, ~FailedToInsert(m)'
               PROVE  (m = current /\ RowsOf(m) \subseteq rows)'
    BY DEF OthersAllOrNothing
  <2>1. CASE m = n
    BY <2>1, <1>1
  <2>2. CASE m # n
    BY <2>2, <1>1, <1>4 DEF IInv, OthersAllOrNothing
  <2> QED
    BY <2>1, <2>2
<1>6. AnswersAreOneRun'
  <2>1. (\E m \in Run : FailedToInsert(m)) => (\E m \in Run : FailedToInsert(m)')
    BY <1>4
  <2>2. polled' = polled /\ got' = got
    BY DEF clientVars
  <2>3. polled # None => polled \in Run
    BY DEF IInv, TypeOK
  <2>4. AnswersAreOneRun
    BY DEF IInv
  <2> QED
    BY <1>1, <2>1, <2>2, <2>3, <2>4 DEF AnswersAreOneRun
<1>7. Asking'
  BY DEF IInv, Asking, clientVars
<1> QED
  BY <1>2, <1>3, <1>5, <1>6, <1>7 DEF IInv
-------------------------------------------------------------------------------
(* The invariant holds at first. *)
LEMMA InitCorrect ==
  ASSUME Init
  PROVE  IInv
<1> USE Constants DEF Init
<1>1. TypeOK
  <2>1. commands \in [Run -> Seq(Table \cup {"commit", "rollback"})]
    OBVIOUS
  <2>2. 0 \in 0..MaxRuns
    BY ConstantsAssumption
  <2> QED
    BY <2>1, <2>2 DEF TypeOK, Phases
<1>2. CompletedIsComplete /\ OthersAllOrNothing /\ AnswersAreOneRun /\ Asking
  BY DEF CompletedIsComplete, OthersAllOrNothing, AnswersAreOneRun, Asking
<1>3. ASSUME NEW n \in Run
      PROVE  Sound(n)
  <2>1. Waiting(n) = {} /\ ~FailedToInsert(n)
    BY DEF Waiting, FailedToInsert
  <2>2. \A i, k \in 1..Len(commands[n]) : FALSE
    OBVIOUS
  <2>3. n > current
    OBVIOUS
  <2> QED
    BY <2>1, <2>2, <2>3
       DEF Sound, Sent, Distinct, Inserting, Committing, Fresh, Leftovers, Working, Committed
<1> QED
  BY <1>1, <1>2, <1>3 DEF IInv

(* prepNewRun: nobody is at work. *)
LEMMA PlanKeeps ==
  ASSUME IInv, Plan
  PROVE  IInv'
<1> USE Constants
<1>1. /\ status \notin {"PENDING", "CLAIMED"} /\ current < MaxRuns
      /\ current' = current + 1 /\ status' = "PENDING" /\ rows' = {}
      /\ phase' = phase /\ commands' = commands /\ next' = next /\ open' = open /\ tx' = tx
      /\ polled' = polled /\ got' = got /\ counted' = counted
      /\ current \in 0..MaxRuns /\ MaxRuns \in Nat
  BY ConstantsAssumption DEF Plan, workVars, clientVars, IInv, TypeOK
<1>2. \A n \in Run : RowsOf(n)' = RowsOf(n)
  BY DEF RowsOf
<1>3. TypeOK'
  <2>1. current' \in 0..MaxRuns /\ current' # 0
    BY <1>1
  <2> QED
    BY <1>1, <1>2, <2>1 DEF IInv, TypeOK
<1>4. CompletedIsComplete' /\ OthersAllOrNothing'
  BY <1>1 DEF CompletedIsComplete, OthersAllOrNothing
<1>5. polled' # None => polled' < current'
  <2>1. polled' # None => polled' <= current /\ polled' \in Nat
    BY <1>1 DEF IInv, Asking, TypeOK
  <2> QED
    BY <1>1, <2>1
<1>6. AnswersAreOneRun' /\ Asking'
  <2>1. polled' # None => polled' # current' /\ polled' <= current'
    <3>1. polled' # None => polled' \in Nat
      BY <1>1 DEF IInv, TypeOK
    <3> QED
      BY <1>1, <1>5, <3>1
  <2> QED
    BY <2>1 DEF AnswersAreOneRun, Asking
<1>7. ASSUME NEW n \in Run
      PROVE  Sound(n)'
  <2>1. Sound(n) /\ phase[n] \in {"idle", "done"}
    BY <1>1 DEF IInv, Sound, Working
  <2>2. n \in Nat /\ current \in Nat
    BY <1>1
  <2>3. n > current' \/ n = current' => phase[n] = "idle"
    BY <1>1, <2>1, <2>2 DEF Sound, Working
  <2>4. Waiting(n)' = Waiting(n) /\ FailedToInsert(n)' = FailedToInsert(n)
    BY <1>1 DEF Waiting, FailedToInsert
  <2>5. Sent(n)' /\ Inserting(n)' /\ Committing(n)' /\ Fresh(n)' /\ Leftovers(n)'
    BY <1>1, <2>1, <2>4 DEF Sound, Sent, Inserting, Committing, Fresh, Leftovers
  <2>6. Working(n)' /\ Committed(n)'
    BY <1>1, <2>1, <2>3 DEF Sound, Working, Committed
  <2> QED
    BY <2>5, <2>6 DEF Sound
<1> QED
  BY <1>3, <1>4, <1>6, <1>7 DEF IInv
-------------------------------------------------------------------------------
(* The types after a step of a worker. *)
LEMMA WorkerTypes ==
  ASSUME TypeOK, NEW n \in Run, Untouched(n), current' = current, UNCHANGED clientVars,
         current # 0 \/ (rows' = rows /\ status' = status),
         status' \in {"NONE", "PENDING", "CLAIMED", "FAILED", "COMPLETED"},
         rows' \subseteq rows \cup RowsOf(n),
         phase' \in [Run -> Phases], commands' \in [Run -> Seq(Commands)],
         next' \in [Run -> [Table -> Nat]], open' \in [Run -> BOOLEAN],
         DOMAIN tx' = Run, tx'[n] \subseteq RowsOf(n), tx'[n] # {} => open'[n]
  PROVE  TypeOK'
<1>1. \A m \in Run : RowsOf(m)' = RowsOf(m)
  BY DEF RowsOf
<1>2. rows' \subseteq UNION {RowsOf(m) : m \in Run}
  BY DEF TypeOK
<1>3. ASSUME NEW m \in Run
      PROVE  tx'[m] \subseteq RowsOf(m) /\ (tx'[m] # {} => open'[m])
  BY DEF TypeOK, Untouched
<1>4. current' = 0 => status' = "NONE" /\ rows' = {}
  BY DEF TypeOK
<1> QED
  BY <1>1, <1>2, <1>3, <1>4 DEF TypeOK, clientVars, Commands

(* Steps that neither send nor execute anything and commit no rows. *)
LEMMA QuietKeeps ==
  ASSUME IInv, NEW n \in Run, NEW p \in Phases, SetPhase(n, p), current = n,
         UNCHANGED <<current, rows, commands, next, open, tx, clientVars>>,
         status' \in {"CLAIMED", "FAILED", "COMPLETED"},
         status' = status \/ status # "COMPLETED",
         status' = "COMPLETED" => status = "COMPLETED" \/ RowsOf(n) \subseteq rows,
         Sound(n)'
  PROVE  IInv'
<1>1. Untouched(n)
  BY DEF Untouched, SetPhase, IInv, TypeOK
<1>2. UNCHANGED clientVars /\ current' = current /\ rows' = rows
  OBVIOUS
<1>3. TypeOK'
  <2>1. TypeOK /\ current # 0
    BY Constants DEF IInv
  <2>2. phase' \in [Run -> Phases] /\ commands' \in [Run -> Seq(Commands)]
        /\ next' \in [Run -> [Table -> Nat]] /\ open' \in [Run -> BOOLEAN]
    BY <2>1 DEF TypeOK, SetPhase, Commands
  <2>3. DOMAIN tx' = Run /\ tx'[n] \subseteq RowsOf(n) /\ (tx'[n] # {} => open'[n])
    BY <2>1 DEF TypeOK
  <2> QED
    BY <1>1, <1>2, <2>1, <2>2, <2>3, WorkerTypes
<1>4. FailedToInsert(n)' = FailedToInsert(n)
  BY DEF FailedToInsert
<1>5. rows' \cap RowsOf(n) # {} /\ ~FailedToInsert(n)' =>
        n = current /\ RowsOf(n) \subseteq rows'
  BY <1>4 DEF IInv, OthersAllOrNothing
<1> QED
  BY <1>1, <1>2, <1>3, <1>4, <1>5, WorkerKeeps

(* claimRun *)
LEMMA ClaimKeeps ==
  ASSUME IInv, NEW n \in Run, Claim(n)
  PROVE  IInv'
<1>1. Sound(n) /\ phase[n] = "idle" /\ phase' = [phase EXCEPT ![n] = "running"]
  BY DEF Claim, IInv, Sound, Working, SetPhase
<1>2. phase'[n] = "running"
  BY <1>1 DEF IInv, TypeOK
<1>3. Waiting(n)' = Waiting(n) /\ FailedToInsert(n)' = FailedToInsert(n)
      /\ RowsOf(n)' = RowsOf(n)
  BY DEF Claim, Waiting, FailedToInsert, RowsOf
<1>4. Waiting(n) = {}
  BY <1>1 DEF Sound, Fresh, Waiting
<1>5. Sound(n)'
  <2>1. n \in Nat /\ current = n /\ status' = "CLAIMED" /\ current' = current
    BY Constants DEF Claim
  <2>2. Sent(n)' /\ Inserting(n)' /\ Committing(n)' /\ Fresh(n)' /\ Leftovers(n)'
    BY <1>1, <1>2, <1>3, <1>4
       DEF Claim, Sound, Sent, Inserting, Committing, Fresh, Leftovers
  <2>3. Working(n)'
    BY <1>2, <2>1 DEF Working
  <2>4. Committed(n)'
    BY <1>1, <1>2, <1>3 DEF Claim, Sound, Committed
  <2> QED
    BY <2>2, <2>3, <2>4 DEF Sound
<1> QED
  BY <1>5, QuietKeeps DEF Claim, Phases

(* changeStatusToCompleted: the rows are committed. *)
LEMMA CompleteKeeps ==
  ASSUME IInv, NEW n \in Run, Complete(n)
  PROVE  IInv'
<1>1. Sound(n) /\ phase[n] = "inserted" /\ phase' = [phase EXCEPT ![n] = "done"]
  BY DEF Complete, IInv, SetPhase
<1>2. phase'[n] = "done" /\ current = n /\ status = "CLAIMED" /\ RowsOf(n) \subseteq rows
      /\ ~FailedToInsert(n)
  BY <1>1 DEF IInv, TypeOK, Sound, Working, Committed, Leftovers
<1>3. Waiting(n)' = Waiting(n) /\ FailedToInsert(n)' = FailedToInsert(n)
      /\ RowsOf(n)' = RowsOf(n)
  BY DEF Complete, Waiting, FailedToInsert, RowsOf
<1>4. commands[n] = <<>> /\ Waiting(n) = {}
  BY <1>1, <1>2 DEF Sound, Leftovers, Waiting
<1>5. Sound(n)'
  <2>1. n \in Nat /\ status' = "COMPLETED" /\ current' = current
    BY Constants DEF Complete
  <2>2. Sent(n)' /\ Inserting(n)' /\ Committing(n)' /\ Fresh(n)' /\ Leftovers(n)'
    BY <1>1, <1>2, <1>3, <1>4
       DEF Complete, Sound, Sent, Inserting, Committing, Fresh, Leftovers
  <2>3. Working(n)'
    BY <1>2, <2>1 DEF Working
  <2>4. Committed(n)'
    BY <1>1, <1>2, <1>3 DEF Complete, Sound, Committed
  <2> QED
    BY <2>2, <2>3, <2>4 DEF Sound
<1> QED
  BY <1>2, <1>5, QuietKeeps DEF Complete, Phases

(* The results cannot be computed, or a write after them fails. *)
LEMMA StepFailsKeeps ==
  ASSUME IInv, NEW n \in Run, StepFails(n)
  PROVE  IInv'
<1>1. Sound(n) /\ phase[n] \in {"running", "inserted"}
      /\ phase' = [phase EXCEPT ![n] = "failing"]
  BY DEF StepFails, IInv, SetPhase
<1>2. phase'[n] = "failing" /\ current = n /\ status = "CLAIMED" /\ ~FailedToInsert(n)
  BY <1>1 DEF IInv, TypeOK, Sound, Working, Leftovers
<1>3. Waiting(n)' = Waiting(n) /\ FailedToInsert(n)' = FailedToInsert(n)
      /\ RowsOf(n)' = RowsOf(n)
  BY DEF StepFails, Waiting, FailedToInsert, RowsOf
<1>4. commands[n] = <<>> /\ Waiting(n) = {}
  BY <1>1, <1>2 DEF Sound, Leftovers, Fresh, Waiting
<1>5. UNCHANGED <<current, rows, commands, next, open, tx, clientVars>> /\ status' = status
  BY DEF StepFails, rowVars
<1>6. Sound(n)'
  <2>1. n \in Nat
    BY Constants
  <2>2. Sent(n)' /\ Inserting(n)' /\ Committing(n)' /\ Fresh(n)' /\ Leftovers(n)'
    BY <1>1, <1>2, <1>3, <1>4, <1>5
       DEF Sound, Sent, Inserting, Committing, Fresh, Leftovers
  <2>3. Working(n)'
    BY <1>2, <1>5, <2>1 DEF Working
  <2>4. Committed(n)'
    BY <1>1, <1>2, <1>3, <1>5 DEF Sound, Committed
  <2> QED
    BY <2>2, <2>3, <2>4 DEF Sound
<1> QED
  BY <1>2, <1>5, <1>6, QuietKeeps DEF StepFails, Phases

(* changeStatusToError: loops may still be under way. *)
LEMMA ReportErrorKeeps ==
  ASSUME IInv, NEW n \in Run, ReportError(n)
  PROVE  IInv'
<1>1. Sound(n) /\ phase[n] = "failing" /\ phase' = [phase EXCEPT ![n] = "done"]
  BY DEF ReportError, IInv, SetPhase
<1>2. phase'[n] = "done" /\ current = n /\ status = "CLAIMED"
  BY <1>1 DEF IInv, TypeOK, Sound, Working
<1>3. Waiting(n)' = Waiting(n) /\ FailedToInsert(n)' = FailedToInsert(n)
      /\ RowsOf(n)' = RowsOf(n)
  BY DEF ReportError, Waiting, FailedToInsert, RowsOf
<1>4. Sound(n)'
  <2>1. n \in Nat /\ status' = "FAILED" /\ current' = current
    BY Constants DEF ReportError
  <2>2. Sent(n)' /\ Inserting(n)' /\ Committing(n)' /\ Fresh(n)' /\ Leftovers(n)'
    BY <1>1, <1>2, <1>3
       DEF ReportError, Sound, Sent, Inserting, Committing, Fresh, Leftovers
  <2>3. Working(n)'
    BY <1>2, <2>1 DEF Working
  <2>4. Committed(n)'
    BY <1>1, <1>2, <1>3 DEF ReportError, Sound, Committed
  <2> QED
    BY <2>2, <2>3, <2>4 DEF Sound
<1> QED
  BY <1>2, <1>4, QuietKeeps DEF ReportError, Phases
-------------------------------------------------------------------------------
(* insertResults begins: a loop for each table, or at once the commit. *)
LEMMA InsertResultsKeeps ==
  ASSUME IInv, NEW n \in Run, InsertResults(n)
  PROVE  IInv'
<1> DEFINE sent == IF Started(n) = <<>> THEN <<"commit">> ELSE Started(n)
           p == IF Started(n) = <<>> THEN "committing" ELSE "inserting"
<1>1. /\ phase[n] = "running" /\ phase' = [phase EXCEPT ![n] = p]
      /\ open' = [open EXCEPT ![n] = TRUE] /\ commands' = [commands EXCEPT ![n] = sent]
      /\ UNCHANGED <<current, status, rows, next, tx, clientVars>>
  BY DEF InsertResults, SetPhase, rowVars
<1>2. TypeOK /\ Sound(n)
  BY DEF IInv
<1>3. /\ current = n /\ status = "CLAIMED" /\ tx[n] = {} /\ ~FailedToInsert(n)
      /\ rows \cap RowsOf(n) = {} /\ \A t \in Table : next[n][t] = 1
  BY <1>1, <1>2 DEF Sound, Working, Fresh, Leftovers, Committed
<1>4. /\ phase'[n] = p /\ open'[n] = TRUE /\ commands'[n] = sent /\ next'[n] = next[n]
      /\ tx'[n] = {} /\ current' = n /\ status' = "CLAIMED" /\ rows' = rows
  BY <1>1, <1>2, <1>3 DEF TypeOK
<1>5. /\ Started(n) \in Seq(Table) /\ Distinct(Started(n))
      /\ {Started(n)[i] : i \in 1..Len(Started(n))} = {t \in Table : Rows[n][t] > 0}
      /\ Started(n) = <<>> <=> \A t \in Table : Rows[n][t] = 0
  BY StartedFacts
<1>6. sent \in Seq(Commands) /\ Distinct(sent)
  <2>1. CASE Started(n) = <<>>
    <3>1. sent = <<"commit">>
      BY <2>1
    <3> HIDE DEF sent
    <3>2. "commit" \in Commands
      BY DEF Commands
    <3>3. sent \in Seq(Commands)
      BY <3>1, <3>2
    <3>4. Len(sent) = 1
      BY <3>1
    <3> QED
      BY <3>3, <3>4 DEF Distinct
  <2>2. CASE Started(n) # <<>>
    <3>1. sent = Started(n)
      BY <2>2
    <3> HIDE DEF sent
    <3>2. Started(n) \in Seq(Table)
      BY <1>5
    <3>3. Started(n) \in Seq(Commands)
      BY <3>2 DEF Commands
    <3> QED
      BY <3>1, <3>3, <1>5
  <2> QED
    BY <2>1, <2>2
<1>7. Waiting(n)' = IF Started(n) = <<>> THEN {"commit"} ELSE {t \in Table : Rows[n][t] > 0}
  <2>1. CASE Started(n) = <<>>
    <3>1. commands'[n] = <<"commit">>
      BY <1>4, <2>1
    <3> QED
      BY <3>1, <2>1 DEF Waiting
  <2>2. CASE Started(n) # <<>>
    <3>1. commands'[n] = Started(n)
      BY <1>4, <2>2
    <3> QED
      BY <3>1, <2>2, <1>5 DEF Waiting
  <2> QED
    BY <2>1, <2>2
<1>8. FailedToInsert(n)' = FailedToInsert(n) /\ RowsOf(n)' = RowsOf(n)
  BY <1>4 DEF FailedToInsert, RowsOf
<1>9. \A t \in Table : Rows[n][t] \in Nat
  BY Constants
<1>10. Untouched(n)
  BY <1>1, <1>2 DEF Untouched, TypeOK
<1>11. TypeOK'
  <2>1. current # 0 /\ p \in Phases
    BY <1>3, Constants DEF Phases
  <2>2. /\ phase' \in [Run -> Phases] /\ commands' \in [Run -> Seq(Commands)]
        /\ next' \in [Run -> [Table -> Nat]] /\ open' \in [Run -> BOOLEAN]
        /\ DOMAIN tx' = Run
    <3> HIDE DEF p, sent
    <3> QED
      BY <1>1, <1>2, <1>6, <2>1 DEF TypeOK, Commands
  <2> QED
    BY <1>1, <1>2, <1>4, <1>10, <2>1, <2>2, WorkerTypes
<1>12. Sound(n)'
  <2>1. Sent(n)'
    <3>1. Distinct(commands'[n])
      BY <1>4, <1>6
    <3>2. ASSUME NEW t \in Table, t \in Waiting(n)'
          PROVE  next'[n][t] \in 1..Rows[n][t]
      BY <3>2, <1>3, <1>4, <1>7, <1>9 DEF Table
    <3>3. "commit" \in Waiting(n)' => phase'[n] = "committing"
      BY <1>4, <1>7 DEF Table
    <3>4. "rollback" \notin Waiting(n)'
      BY <1>7 DEF Table
    <3> QED
      BY <3>1, <3>2, <3>3, <3>4 DEF Sent
  <2>2. Inserting(n)'
    <3> SUFFICES ASSUME p = "inserting"
                 PROVE  /\ \A t \in Table : /\ next'[n][t] \in 1..Rows[n][t] + 1
                                            /\ t \in Waiting(n)' <=> next'[n][t] <= Rows[n][t]
                        /\ \E t \in Table : next'[n][t] <= Rows[n][t]
                        /\ tx'[n] = {r \in RowsOf(n) : r.i < next'[n][r.table]}
      BY <1>4, <1>8 DEF Inserting
    <3>1. Waiting(n)' = {t \in Table : Rows[n][t] > 0}
      BY <1>7
    <3>2. \E t \in Table : Rows[n][t] # 0
      BY <1>5
    <3>3. \A r \in RowsOf(n) : r.i >= 1 /\ next'[n][r.table] = 1
      BY <1>3, <1>4, RowFacts
    <3>4. \A r \in RowsOf(n) : r.i \in Nat
      BY RowFacts
    <3>5. {r \in RowsOf(n) : r.i < next'[n][r.table]} = {}
      BY <3>3, <3>4
    <3>6. \A t \in Table : next'[n][t] = 1
      BY <1>3, <1>4
    <3> QED
      BY <1>4, <1>9, <3>1, <3>2, <3>5, <3>6
  <2>3. Committing(n)'
    <3> SUFFICES ASSUME p = "committing"
                 PROVE  commands'[n] = <<"commit">> /\ RowsOf(n) = {}
      BY <1>4, <1>8 DEF Committing
    <3>1. Started(n) = <<>>
      OBVIOUS
    <3>2. \A t \in Table : Rows[n][t] = 0
      BY <3>1, <1>5
    <3> QED
      BY <1>4, <3>1, <3>2, RowFacts
  <2>4. Fresh(n)' /\ Leftovers(n)'
    BY <1>3, <1>4, <1>8 DEF Fresh, Leftovers
  <2>5. Working(n)'
    BY <1>4, Constants DEF Working
  <2>6. Committed(n)'
    BY <1>3, <1>4, <1>8 DEF Committed
  <2> QED
    BY <2>1, <2>2, <2>3, <2>4, <2>5, <2>6 DEF Sound
<1> QED
  BY <1>1, <1>3, <1>4, <1>8, <1>10, <1>11, <1>12, WorkerKeeps

(* COMMIT finds the rows of all loops. *)
LEMMA CommitKeeps ==
  ASSUME IInv, NEW n \in Run, Commit(n)
  PROVE  IInv'
<1>1. TypeOK /\ Sound(n)
  BY DEF IInv
<1>2. "commit" \in Waiting(n)
  BY <1>1, HeadWaits DEF Commit
<1>3. /\ phase[n] = "committing" /\ commands[n] = <<"commit">> /\ tx[n] = RowsOf(n)
      /\ current = n /\ status = "CLAIMED" /\ ~FailedToInsert(n)
  BY <1>1, <1>2 DEF Sound, Sent, Committing, Working, Leftovers
<1>4. Send(n, <<>>) /\ commands[n] # <<>>
  BY DEF Commit
<1>5. /\ commands' \in [Run -> Seq(Commands)] /\ commands'[n] = <<>>
      /\ \A m \in Run \ {n} : commands'[m] = commands[m]
  <2>1. commands'[n] = Tail(<<"commit">>) \o <<>>
    BY <1>1, <1>3, <1>4 DEF Send, TypeOK
  <2>2. commands' \in [Run -> Seq(Commands)]
        /\ \A m \in Run \ {n} : commands'[m] = commands[m]
    BY <1>1, <1>4, SendNone DEF Sound
  <2> QED
    BY <2>1, <2>2
<1>6. /\ phase'[n] = "inserted" /\ open'[n] = FALSE /\ tx'[n] = {} /\ next' = next
      /\ current' = current /\ status' = status /\ rows' = rows \cup RowsOf(n)
  BY <1>1, <1>3 DEF Commit, SetPhase, TypeOK
<1>7. FailedToInsert(n)' = FailedToInsert(n) /\ RowsOf(n)' = RowsOf(n) /\ Waiting(n)' = {}
  BY <1>5, <1>6 DEF FailedToInsert, RowsOf, Waiting
<1>8. Untouched(n)
  <2>1. \A m \in Run \ {n} : RowsOf(n) \cap RowsOf(m) = {}
    BY RowsDisjoint
  <2>2. \A m \in Run \ {n} : rows' \cap RowsOf(m) = rows \cap RowsOf(m)
    BY <1>6, <2>1
  <2> QED
    BY <1>1, <1>5, <2>2 DEF Commit, SetPhase, Untouched, TypeOK
<1>9. TypeOK'
  <2>1. current # 0 /\ UNCHANGED clientVars
    BY <1>3, Constants DEF Commit
  <2>2. /\ phase' \in [Run -> Phases] /\ next' \in [Run -> [Table -> Nat]]
        /\ open' \in [Run -> BOOLEAN] /\ DOMAIN tx' = Run
    BY <1>1 DEF Commit, SetPhase, TypeOK, Phases
  <2> QED
    BY <1>1, <1>3, <1>5, <1>6, <1>8, <2>1, <2>2, WorkerTypes
<1>10. Sound(n)'
  <2>1. Sent(n)'
    BY <1>5, <1>7 DEF Sent, Distinct
  <2>2. Inserting(n)' /\ Committing(n)' /\ Fresh(n)' /\ Leftovers(n)'
    BY <1>3, <1>5, <1>6, <1>7 DEF Inserting, Committing, Fresh, Leftovers
  <2>3. Working(n)' /\ Committed(n)'
    BY <1>3, <1>6, <1>7, Constants DEF Working, Committed
  <2> QED
    BY <2>1, <2>2, <2>3 DEF Sound
<1>11. UNCHANGED clientVars
  BY DEF Commit
<1> QED
  BY <1>3, <1>6, <1>7, <1>8, <1>9, <1>10, <1>11, WorkerKeeps

(* ROLLBACK follows a failed insert only. *)
LEMMA RollbackKeeps ==
  ASSUME IInv, NEW n \in Run, Rollback(n)
  PROVE  IInv'
<1>1. TypeOK /\ Sound(n)
  BY DEF IInv
<1>2. "rollback" \in Waiting(n)
  BY <1>1, HeadWaits DEF Rollback
<1>3. /\ phase[n] = "rollingBack" /\ current = n /\ status = "CLAIMED" /\ FailedToInsert(n)
  BY <1>1, <1>2 DEF Sound, Sent, Working, Leftovers
<1>4. Send(n, <<>>) /\ commands[n] # <<>> /\ Head(commands[n]) = "rollback"
  BY DEF Rollback
<1>5. /\ commands' \in [Run -> Seq(Commands)] /\ Distinct(commands'[n])
      /\ Waiting(n)' = Waiting(n) \ {"rollback"}
      /\ \A m \in Run \ {n} : commands'[m] = commands[m]
  BY <1>1, <1>4, SendNone DEF Sound
<1>6. /\ phase'[n] = "failing" /\ open'[n] = FALSE /\ tx'[n] = {} /\ next' = next
      /\ current' = current /\ status' = status /\ rows' = rows
  BY <1>1, <1>3 DEF Rollback, SetPhase, TypeOK, rowVars
<1>7. FailedToInsert(n)' = FailedToInsert(n) /\ RowsOf(n)' = RowsOf(n)
  BY <1>6 DEF FailedToInsert, RowsOf
<1>8. Untouched(n)
  BY <1>1, <1>5, <1>6 DEF Rollback, SetPhase, Untouched, TypeOK
<1>9. TypeOK'
  <2>1. UNCHANGED clientVars
    BY DEF Rollback
  <2>2. /\ phase' \in [Run -> Phases] /\ next' \in [Run -> [Table -> Nat]]
        /\ open' \in [Run -> BOOLEAN] /\ DOMAIN tx' = Run
    BY <1>1 DEF Rollback, SetPhase, TypeOK, Phases
  <2> QED
    BY <1>1, <1>3, <1>5, <1>6, <1>8, <2>1, <2>2, WorkerTypes
<1>10. Sound(n)'
  <2>1. Sent(n)'
    BY <1>1, <1>3, <1>5, <1>6 DEF Sound, Sent
  <2>2. Inserting(n)' /\ Committing(n)' /\ Fresh(n)' /\ Leftovers(n)'
    BY <1>3, <1>6, <1>7 DEF Inserting, Committing, Fresh, Leftovers
  <2>3. Working(n)' /\ Committed(n)'
    BY <1>3, <1>6, <1>7, Constants DEF Working, Committed
  <2> QED
    BY <2>1, <2>2, <2>3 DEF Sound
<1>11. UNCHANGED clientVars
  BY DEF Rollback
<1> QED
  BY <1>3, <1>6, <1>7, <1>8, <1>9, <1>10, <1>11, WorkerKeeps
-------------------------------------------------------------------------------
(* An INSERT is the next to be executed; its loop has a row for it. *)
LEMMA LoopFacts ==
  ASSUME IInv, NEW n \in Run, NEW t \in Table, commands[n] # <<>>, Head(commands[n]) = t
  PROVE  /\ TypeOK /\ Sound(n) /\ t \in Waiting(n) /\ t \in Commands
         /\ next[n][t] \in 1..Rows[n][t] /\ Rows[n][t] \in Nat
         /\ phase[n] \in {"inserting", "rollingBack", "failing", "done"}
         /\ phase[n] # "inserting" => FailedToInsert(n)
<1>1. TypeOK /\ Sound(n) /\ t \in Waiting(n) /\ t \in Commands
  BY HeadWaits DEF IInv
<1>2. next[n][t] \in 1..Rows[n][t] /\ Rows[n][t] \in Nat
  BY <1>1, Constants DEF Sound, Sent
<1>3. phase[n] \notin {"idle", "running"}
  BY <1>1 DEF Sound, Fresh
<1>4. phase[n] # "committing"
  <2>1. ASSUME commands[n] = <<"commit">>
        PROVE  FALSE
    BY <2>1 DEF Table
  <2> QED
    BY <1>1, <2>1 DEF Sound, Committing
<1>5. phase[n] # "inserted"
  BY <1>1 DEF Sound, Leftovers
<1>6. phase[n] \in Phases
  BY <1>1 DEF TypeOK
<1>7. phase[n] \in {"rollingBack", "failing", "done"} => FailedToInsert(n)
  BY <1>1 DEF Sound, Leftovers
<1> QED
  BY <1>1, <1>2, <1>3, <1>4, <1>5, <1>6, <1>7 DEF Phases

(* The failure of an INSERT ends the Promise.all, not the other loops. *)
LEMMA InsertFailsKeeps ==
  ASSUME IInv, NEW n \in Run, NEW t \in Table, commands[n] # <<>>, Head(commands[n]) = t,
         InsertFails(n, t)
  PROVE  IInv'
<1>1. /\ TypeOK /\ Sound(n) /\ t \in Waiting(n)
      /\ phase[n] \in {"inserting", "rollingBack", "failing", "done"}
      /\ next[n][t] \in 1..Rows[n][t]
  BY LoopFacts
<1> DEFINE p == IF phase[n] = "inserting" THEN "rollingBack" ELSE phase[n]
<1>2. /\ commands' \in [Run -> Seq(Commands)] /\ Distinct(commands'[n])
      /\ \A m \in Run \ {n} : commands'[m] = commands[m]
      /\ Waiting(n)' = IF phase[n] = "inserting" THEN (Waiting(n) \ {t}) \cup {"rollback"}
                       ELSE Waiting(n) \ {t}
  <2>1. CASE phase[n] = "inserting"
    <3>1. Send(n, <<"rollback">>) /\ "rollback" \in Commands /\ "rollback" \notin Waiting(n)
      BY <1>1, <2>1 DEF InsertFails, Commands, Sound, Sent
    <3> QED
      BY <1>1, <2>1, <3>1, SendOne DEF Sound
  <2>2. CASE phase[n] # "inserting"
    <3>1. Send(n, <<>>)
      BY <2>2 DEF InsertFails
    <3> QED
      BY <1>1, <2>2, <3>1, SendNone DEF Sound
  <2> QED
    BY <2>1, <2>2
<1>3. /\ phase'[n] = p /\ phase' = [phase EXCEPT ![n] = p]
  BY <1>1 DEF InsertFails, SetPhase, TypeOK
<1>4. /\ next' \in [Run -> [Table -> Nat]] /\ next'[n][t] = 0
      /\ \A u \in Table \ {t} : next'[n][u] = next[n][u]
      /\ \A m \in Run \ {n} : next'[m] = next[m]
  BY <1>1 DEF InsertFails, TypeOK
<1>5. /\ current' = current /\ status' = status /\ rows' = rows /\ open' = open /\ tx' = tx
      /\ UNCHANGED clientVars
  BY DEF InsertFails, rowVars
<1>6. FailedToInsert(n)' /\ RowsOf(n)' = RowsOf(n)
  BY <1>4 DEF FailedToInsert, RowsOf
<1>7. Untouched(n)
  BY <1>1, <1>2, <1>3, <1>4, <1>5 DEF Untouched, TypeOK
<1>8. TypeOK'
  <2>1. phase' \in [Run -> Phases]
    BY <1>1, <1>3 DEF TypeOK, Phases
  <2>2. /\ open' \in [Run -> BOOLEAN] /\ DOMAIN tx' = Run /\ tx'[n] \subseteq RowsOf(n)
        /\ (tx'[n] # {} => open'[n])
        /\ status' \in {"NONE", "PENDING", "CLAIMED", "FAILED", "COMPLETED"}
    BY <1>1, <1>5 DEF TypeOK
  <2> QED
    BY <1>1, <1>2, <1>4, <1>5, <1>7, <2>1, <2>2, WorkerTypes
<1>9. Sound(n)'
  <2>1. Sent(n)'
    <3>1. ASSUME NEW u \in Table, u \in Waiting(n)'
          PROVE  next'[n][u] \in 1..Rows[n][u]
      <4>1. u # t /\ u \in Waiting(n)
        BY <1>2, <3>1 DEF Table
      <4> QED
        BY <1>1, <1>4, <4>1 DEF Sound, Sent
    <3>2. "commit" \notin Waiting(n)'
      BY <1>1, <1>2 DEF Sound, Sent
    <3>3. "rollback" \in Waiting(n)' => phase'[n] = "rollingBack"
      BY <1>1, <1>2, <1>3 DEF Sound, Sent
    <3> QED
      BY <1>2, <3>1, <3>2, <3>3 DEF Sent
  <2>2. Inserting(n)' /\ Committing(n)' /\ Fresh(n)' /\ Leftovers(n)'
    BY <1>1, <1>3, <1>6 DEF Inserting, Committing, Fresh, Leftovers
  <2>3. Working(n)'
    BY <1>1, <1>3, <1>5 DEF Sound, Working
  <2>4. Committed(n)'
    BY <1>1, <1>3, <1>5 DEF Sound, Committed
  <2> QED
    BY <2>1, <2>2, <2>3, <2>4 DEF Sound
<1>10. status' = "COMPLETED" => status = "COMPLETED" \/ RowsOf(current) \subseteq rows'
  BY <1>5
<1> QED
  BY <1>5, <1>6, <1>7, <1>8, <1>9, <1>10, WorkerKeeps

(* The connection breaks: what it was sent is lost, and its transaction undone. *)
LEMMA BreakKeeps ==
  ASSUME IInv, NEW n \in Run, Break(n)
  PROVE  IInv'
<1>1. TypeOK /\ Sound(n) /\ commands[n] # <<>>
  BY DEF Break, IInv
<1>2. /\ commands' = [commands EXCEPT ![n] = <<>>] /\ tx' = [tx EXCEPT ![n] = {}]
      /\ open' = [open EXCEPT ![n] = FALSE]
      /\ current' = current /\ status' = status /\ rows' = rows /\ next' = next
      /\ UNCHANGED clientVars
  BY DEF Break, rowVars
<1>3. phase[n] \in {"inserting", "committing", "rollingBack", "failing", "done"}
  <2>1. phase[n] \notin {"idle", "running"}
    BY <1>1 DEF Sound, Fresh
  <2>2. phase[n] # "inserted"
    BY <1>1 DEF Sound, Leftovers
  <2> QED
    BY <1>1, <2>1, <2>2 DEF TypeOK, Phases
<1>4. PICK p \in {"failing", "done"} :
        phase' = [phase EXCEPT ![n] = p] /\ (phase[n] = "done" => p = "done")
  <2>1. CASE UNCHANGED phase /\ phase[n] \in {"failing", "done"}
    <3>1. phase' = [phase EXCEPT ![n] = phase[n]]
      BY <1>1, <2>1 DEF TypeOK
    <3> QED
      BY <2>1, <3>1
  <2>2. CASE SetPhase(n, "failing") /\ phase[n] # "done"
    BY <2>2 DEF SetPhase
  <2>3. CASE SetPhase(n, "done")
    BY <2>3 DEF SetPhase
  <2> QED
    BY <2>1, <2>2, <2>3 DEF Break
<1>5. /\ phase'[n] = p /\ commands'[n] = <<>> /\ tx'[n] = {} /\ open'[n] = FALSE
  BY <1>1, <1>2, <1>4 DEF TypeOK
<1>6. /\ FailedToInsert(n)' = FailedToInsert(n) /\ RowsOf(n)' = RowsOf(n)
      /\ Waiting(n)' = {}
  BY <1>2, <1>5 DEF FailedToInsert, RowsOf, Waiting
<1>7. Untouched(n)
  BY <1>1, <1>2, <1>4 DEF Untouched, TypeOK
<1>8. TypeOK'
  <2>1. /\ phase' \in [Run -> Phases] /\ commands' \in [Run -> Seq(Commands)]
        /\ next' \in [Run -> [Table -> Nat]] /\ open' \in [Run -> BOOLEAN]
        /\ DOMAIN tx' = Run
        /\ status' \in {"NONE", "PENDING", "CLAIMED", "FAILED", "COMPLETED"}
    BY <1>1, <1>2, <1>4 DEF TypeOK, Phases, Commands
  <2> QED
    BY <1>1, <1>2, <1>5, <1>7, <2>1, WorkerTypes
<1>9. Sound(n)'
  <2>1. Sent(n)'
    BY <1>5, <1>6 DEF Sent, Distinct
  <2>2. Inserting(n)' /\ Committing(n)' /\ Fresh(n)' /\ Leftovers(n)'
    BY <1>5, <1>6 DEF Inserting, Committing, Fresh, Leftovers
  <2>3. Working(n)'
    BY <1>1, <1>2, <1>3, <1>4, <1>5 DEF Sound, Working
  <2>4. Committed(n)'
    BY <1>5 DEF Committed
  <2> QED
    BY <2>1, <2>2, <2>3, <2>4 DEF Sound
<1>10. rows' \cap RowsOf(n) # {} /\ ~FailedToInsert(n)' =>
         n = current /\ RowsOf(n) \subseteq rows'
  BY <1>2, <1>6 DEF IInv, OthersAllOrNothing
<1> QED
  BY <1>2, <1>6, <1>7, <1>8, <1>9, <1>10, WorkerKeeps

(* An INSERT succeeds: in the transaction, or by itself after the rollback. *)
LEMMA InsertedKeeps ==
  ASSUME IInv, NEW n \in Run, NEW t \in Table, commands[n] # <<>>, Head(commands[n]) = t,
         Inserted(n, t)
  PROVE  IInv'
<1> DEFINE k == next[n][t]
           r == [table |-> t, run |-> n, i |-> k]
           after == [next[n] EXCEPT ![t] = k + 1]
           all == \A u \in Table : after[u] = Rows[n][u] + 1
           ends == all /\ phase[n] = "inserting"
           p == IF ends THEN "committing" ELSE phase[n]
<1>1. /\ TypeOK /\ Sound(n) /\ t \in Waiting(n) /\ t \in Commands
      /\ k \in 1..Rows[n][t] /\ Rows[n][t] \in Nat
      /\ phase[n] \in {"inserting", "rollingBack", "failing", "done"}
      /\ phase[n] # "inserting" => FailedToInsert(n)
  BY LoopFacts
<1>2. /\ current # 0 /\ current' = current /\ status' = status /\ open' = open
      /\ UNCHANGED clientVars
      /\ IF open[n] THEN tx' = [tx EXCEPT ![n] = @ \cup {r}] /\ rows' = rows
         ELSE rows' = rows \cup {r} /\ tx' = tx
      /\ next' = [next EXCEPT ![n] = after]
      /\ Send(n, IF k < Rows[n][t] THEN <<t>> ELSE IF ends THEN <<"commit">> ELSE <<>>)
      /\ IF ends THEN SetPhase(n, "committing") ELSE phase' = phase
  BY DEF Inserted
<1>3. /\ after \in [Table -> Nat] /\ after[t] = k + 1
      /\ \A u \in Table \ {t} : after[u] = next[n][u]
  BY <1>1 DEF TypeOK
<1>4. /\ next' \in [Run -> [Table -> Nat]] /\ next'[n] = after
      /\ \A m \in Run \ {n} : next'[m] = next[m]
  <2> HIDE DEF after
  <2> QED
    BY <1>1, <1>2, <1>3 DEF TypeOK
<1>5. phase' = [phase EXCEPT ![n] = p] /\ phase'[n] = p
  BY <1>1, <1>2 DEF TypeOK, SetPhase
<1>6. r \in RowsOf(n) /\ \A m \in Run \ {n} : r \notin RowsOf(m)
  BY <1>1, RowFacts, RowsDisjoint
<1>7. FailedToInsert(n)' <=> FailedToInsert(n)
  <2> HIDE DEF after
  <2>1. next'[n][t] # 0 /\ next[n][t] # 0
    BY <1>1, <1>3, <1>4
  <2>2. \A u \in Table \ {t} : next'[n][u] = next[n][u]
    BY <1>3, <1>4
  <2> QED
    BY <2>1, <2>2 DEF FailedToInsert
<1>8. ends => k = Rows[n][t]
  BY <1>1, <1>3
<1> HIDE DEF r, after, all
<1>9. /\ commands' \in [Run -> Seq(Commands)] /\ Distinct(commands'[n])
      /\ \A m \in Run \ {n} : commands'[m] = commands[m]
      /\ Waiting(n)' = (Waiting(n) \ {t}) \cup (IF k < Rows[n][t] THEN {t}
                                                ELSE IF ends THEN {"commit"} ELSE {})
  <2>1. CASE k < Rows[n][t]
    <3>1. Send(n, <<t>>)
      BY <1>2, <2>1
    <3> QED
      BY <1>1, <2>1, <3>1, SendOne DEF Sound
  <2>2. CASE ~(k < Rows[n][t]) /\ ends
    <3>1. Send(n, <<"commit">>) /\ "commit" \in Commands /\ "commit" \notin Waiting(n)
      BY <1>1, <1>2, <2>2 DEF Commands, Sound, Sent
    <3> QED
      BY <1>1, <2>2, <3>1, SendOne DEF Sound
  <2>3. CASE ~(k < Rows[n][t]) /\ ~ends
    <3>1. Send(n, <<>>)
      BY <1>2, <2>3
    <3> QED
      BY <1>1, <2>3, <3>1, SendNone DEF Sound
  <2> QED
    BY <2>1, <2>2, <2>3
<1>10. open[n] <=> phase[n] \in {"inserting", "rollingBack"}
  BY <1>1 DEF Sound, Committed
<1>11. Untouched(n)
  <2>1. \A m \in Run \ {n} : rows' \cap RowsOf(m) = rows \cap RowsOf(m) /\ tx'[m] = tx[m]
    BY <1>1, <1>2, <1>6 DEF TypeOK
  <2>2. \A m \in Run \ {n} : phase'[m] = phase[m]
    BY <1>1, <1>5 DEF TypeOK
  <2> QED
    BY <1>2, <1>4, <1>9, <2>1, <2>2 DEF Untouched
<1>12. tx'[n] = (IF open[n] THEN tx[n] \cup {r} ELSE tx[n]) /\ DOMAIN tx' = Run
  BY <1>1, <1>2 DEF TypeOK
<1>13. TypeOK'
  <2>1. p \in Phases
    BY <1>1 DEF Phases
  <2>2. phase' \in [Run -> Phases]
    <3> HIDE DEF p
    <3> QED
      BY <1>1, <1>5, <2>1 DEF TypeOK
  <2>3. /\ rows' \subseteq rows \cup RowsOf(n) /\ tx'[n] \subseteq RowsOf(n)
        /\ (tx'[n] # {} => open'[n]) /\ open' \in [Run -> BOOLEAN]
        /\ status' \in {"NONE", "PENDING", "CLAIMED", "FAILED", "COMPLETED"}
    BY <1>1, <1>2, <1>6, <1>12 DEF TypeOK
  <2> QED
    BY <1>1, <1>2, <1>4, <1>9, <1>11, <1>12, <2>2, <2>3, WorkerTypes
<1>14. RowsOf(n)' = RowsOf(n)
  BY DEF RowsOf
<1>15. \A u \in Table : Rows[n][u] \in Nat
  BY Constants
<1>16. Sound(n)'
  <2>1. Sent(n)'
    <3>1. ASSUME NEW u \in Table, u \in Waiting(n)'
          PROVE  next'[n][u] \in 1..Rows[n][u]
      <4>1. u # "commit"
        BY DEF Table
      <4>2. CASE u = t
        <5>1. k < Rows[n][t]
          BY <1>9, <3>1, <4>1, <4>2
        <5> QED
          BY <1>1, <1>3, <1>4, <4>2, <5>1
      <4>3. CASE u # t
        <5>1. u \in Waiting(n) /\ next'[n][u] = next[n][u]
          BY <1>3, <1>4, <1>9, <3>1, <4>1, <4>3
        <5> QED
          BY <1>1, <5>1 DEF Sound, Sent
      <4> QED
        BY <4>2, <4>3
    <3>2. t # "commit" /\ t # "rollback"
      BY DEF Table
    <3>3. "commit" \in Waiting(n)' => phase'[n] = "committing"
      BY <1>1, <1>5, <1>9, <3>2 DEF Sound, Sent
    <3>4. "rollback" \in Waiting(n)' => phase'[n] = "rollingBack"
      BY <1>1, <1>5, <1>9, <3>2 DEF Sound, Sent
    <3> QED
      BY <1>9, <3>1, <3>3, <3>4 DEF Sent
  <2>2. ASSUME phase[n] = "inserting"
        PROVE  tx'[n] = {x \in RowsOf(n) : x.i < after[x.table]}
    <3>1. tx[n] = {x \in RowsOf(n) : x.i < next[n][x.table]} /\ tx'[n] = tx[n] \cup {r}
      BY <1>1, <1>10, <1>12, <2>2 DEF Sound, Inserting
    <3>2. r.table = t /\ r.i = k /\ r.run = n
      BY DEF r
    <3>3. ASSUME NEW x \in RowsOf(n)
          PROVE  x.i < after[x.table] <=> x.i < next[n][x.table] \/ x = r
      <4>1. /\ x.table \in Table /\ x.i \in Nat
            /\ x = [table |-> x.table, run |-> n, i |-> x.i]
        BY <1>15, RowFacts
      <4>2. CASE x.table # t
        BY <1>3, <3>2, <4>1, <4>2
      <4>3. CASE x.table = t
        <5>1. x = r <=> x.i = k
          BY <3>2, <4>1, <4>3 DEF r
        <5>2. after[x.table] = k + 1 /\ next[n][x.table] = k /\ k \in Nat
          BY <1>1, <1>3, <4>3
        <5> QED
          BY <4>1, <5>1, <5>2
      <4> QED
        BY <4>2, <4>3
    <3> QED
      BY <1>6, <3>1, <3>3
  <2>3. ASSUME phase[n] = "inserting", NEW u \in Table
        PROVE  /\ after[u] \in 1..Rows[n][u] + 1
               /\ u \in Waiting(n)' <=> after[u] <= Rows[n][u]
    <3>0. u # "commit"
      BY DEF Table
    <3>1. next[n][u] \in 1..Rows[n][u] + 1 /\ (u \in Waiting(n) <=> next[n][u] <= Rows[n][u])
      BY <1>1, <2>3 DEF Sound, Inserting
    <3>2. CASE u = t
      <4>1. u \in Waiting(n)' <=> k < Rows[n][t]
        BY <1>9, <3>0, <3>2
      <4> QED
        BY <1>1, <1>3, <3>2, <4>1
    <3>3. CASE u # t
      <4>1. u \in Waiting(n)' <=> u \in Waiting(n)
        BY <1>9, <3>0, <3>3
      <4> QED
        BY <1>3, <3>1, <3>3, <4>1
    <3> QED
      BY <3>2, <3>3
  <2>4. Inserting(n)'
    <3> SUFFICES ASSUME phase'[n] = "inserting"
                 PROVE  /\ \A u \in Table : /\ after[u] \in 1..Rows[n][u] + 1
                                            /\ u \in Waiting(n)' <=> after[u] <= Rows[n][u]
                        /\ \E u \in Table : after[u] <= Rows[n][u]
                        /\ tx'[n] = {x \in RowsOf(n) : x.i < after[x.table]}
      BY <1>4, <1>14 DEF Inserting
    <3>1. phase[n] = "inserting" /\ ~all
      BY <1>1, <1>5
    <3>2. PICK u \in Table : after[u] # Rows[n][u] + 1
      BY <3>1 DEF all
    <3>3. after[u] <= Rows[n][u]
      BY <1>15, <2>3, <3>1, <3>2
    <3> QED
      BY <2>2, <2>3, <3>1, <3>3
  <2>5. Committing(n)'
    <3> SUFFICES ASSUME phase'[n] = "committing"
                 PROVE  commands'[n] = <<"commit">> /\ tx'[n] = RowsOf(n)
      BY <1>14 DEF Committing
    <3>1. ends /\ k = Rows[n][t] /\ phase[n] = "inserting"
      BY <1>1, <1>5, <1>8
    <3>2. Waiting(n)' = (Waiting(n) \ {t}) \cup {"commit"}
      BY <1>1, <1>9, <3>1
    <3>3. \A u \in Table : u \notin Waiting(n)'
      <4>1. \A u \in Table : after[u] = Rows[n][u] + 1
        BY <3>1 DEF all
      <4> QED
        BY <1>15, <2>3, <3>1, <4>1
    <3>4. "rollback" \notin Waiting(n)'
      BY <1>1, <3>1, <3>2 DEF Sound, Sent
    <3>5. commands'[n] = <<"commit">>
      <4>1. commands'[n] \in Seq(Commands) /\ Distinct(commands'[n])
        BY <1>9
      <4>2. \A i \in 1..Len(commands'[n]) : commands'[n][i] = "commit"
        BY <3>3, <3>4, <4>1 DEF Waiting, Commands
      <4>3. Len(commands'[n]) # 0
        <5>1. "commit" \in Waiting(n)'
          BY <3>2
        <5>2. PICK i \in 1..Len(commands'[n]) : commands'[n][i] = "commit"
          BY <5>1 DEF Waiting
        <5> QED
          BY <5>2
      <4>4. Len(commands'[n]) = 1
        <5> DEFINE l == Len(commands'[n])
        <5>1. l \in Nat
          BY <4>1
        <5>2. ASSUME l > 1
              PROVE  FALSE
          <6>1. 1 \in 1..Len(commands'[n]) /\ 2 \in 1..Len(commands'[n])
            BY <5>1, <5>2
          <6>2. commands'[n][1] = "commit" /\ commands'[n][2] = "commit"
            BY <4>2, <6>1
          <6>3. 1 = 2
            BY <4>1, <6>1, <6>2 DEF Distinct
          <6> QED
            BY <6>3
        <5>3. l # 0
          BY <4>3
        <5> HIDE DEF l
        <5>4. l = 1
          BY <5>1, <5>2, <5>3
        <5> QED
          BY <5>4 DEF l
      <4> QED
        BY <4>1, <4>2, <4>4
    <3>6. \A x \in RowsOf(n) : x.i < after[x.table]
      <4>1. \A u \in Table : after[u] = Rows[n][u] + 1
        BY <3>1 DEF all
      <4>2. \A x \in RowsOf(n) : x.table \in Table /\ x.i \in 1..Rows[n][x.table]
        BY RowFacts
      <4> QED
        BY <1>15, <4>1, <4>2
    <3> QED
      BY <2>2, <3>1, <3>5, <3>6
  <2>6. Fresh(n)' /\ Leftovers(n)'
    <3>1. ~FailedToInsert(n) => phase[n] = "inserting"
      BY <1>1
    <3>2. FailedToInsert(n) => ~ends /\ phase[n] # "inserting"
      BY <1>1 DEF Sound, Leftovers
    <3> QED
      BY <1>1, <1>5, <1>7, <3>1, <3>2 DEF Fresh, Leftovers
  <2>7. Working(n)'
    BY <1>1, <1>2, <1>5 DEF Sound, Working
  <2>8. Committed(n)'
    BY <1>1, <1>2, <1>5, <1>10, <1>14 DEF Sound, Committed
  <2> QED
    BY <2>1, <2>4, <2>5, <2>6, <2>7, <2>8 DEF Sound
<1>17. rows' \cap RowsOf(n) # {} /\ ~FailedToInsert(n)' =>
         n = current /\ RowsOf(n) \subseteq rows'
  BY <1>1, <1>2, <1>7, <1>10 DEF IInv, OthersAllOrNothing
<1>18. rows \subseteq rows'
  BY <1>2
<1>19. status' = "COMPLETED" => status = "COMPLETED" \/ RowsOf(current) \subseteq rows'
  BY <1>2
<1> QED
  BY <1>2, <1>7, <1>11, <1>13, <1>16, <1>17, <1>18, <1>19, WorkerKeeps
-------------------------------------------------------------------------------
(* What a client does leaves the workers alone. *)
LEMMA ClientKeeps ==
  ASSUME IInv, UNCHANGED <<rowVars, workVars>>, TypeOK', AnswersAreOneRun', Asking'
  PROVE  IInv'
<1>1. \A n \in Run : /\ RowsOf(n)' = RowsOf(n) /\ Waiting(n)' = Waiting(n)
                     /\ FailedToInsert(n)' = FailedToInsert(n)
  BY DEF RowsOf, Waiting, FailedToInsert, workVars
<1>2. CompletedIsComplete' /\ OthersAllOrNothing'
  <2>1. RowsOf(current)' = RowsOf(current)
    BY DEF RowsOf, rowVars
  <2> QED
    BY <1>1, <2>1 DEF IInv, CompletedIsComplete, OthersAllOrNothing, rowVars
<1>3. ASSUME NEW n \in Run
      PROVE  Sound(n)'
  <2>1. Sound(n)
    BY DEF IInv
  <2>2. Sent(n)' /\ Committing(n)' /\ Fresh(n)' /\ Leftovers(n)' /\ Working(n)'
    BY <1>1, <2>1 DEF Sound, Sent, Committing, Fresh, Leftovers, Working, rowVars, workVars
  <2>3. Inserting(n)' /\ Committed(n)'
    BY <1>1, <2>1 DEF Sound, Inserting, Committed, rowVars, workVars
  <2> QED
    BY <2>2, <2>3 DEF Sound
<1> QED
  BY <1>2, <1>3 DEF IInv

(* A client begins to ask only when it sees a run completed. *)
LEMMA PollKeeps ==
  ASSUME IInv, Poll
  PROVE  IInv'
<1>1. /\ polled = None /\ counted = None /\ status = "COMPLETED" /\ polled' = current
      /\ UNCHANGED <<rowVars, workVars>> /\ got' = got /\ counted' = counted
  BY DEF Poll
<1>2. TypeOK /\ current \in Run
  <2>1. TypeOK
    BY DEF IInv
  <2>2. current \in 0..MaxRuns /\ (current = 0 => status = "NONE")
    BY <2>1 DEF TypeOK
  <2>3. MaxRuns \in Nat
    BY ConstantsAssumption
  <2> QED
    BY <1>1, <2>1, <2>2, <2>3 DEF Run
<1>3. TypeOK'
  <2>1. \A n \in Run : RowsOf(n)' = RowsOf(n)
    BY DEF RowsOf
  <2>2. current' = current /\ status' = status /\ rows' = rows /\ phase' = phase
        /\ commands' = commands /\ next' = next /\ open' = open /\ tx' = tx
    BY <1>1 DEF rowVars, workVars
  <2>3. polled' # None
    BY <1>1, <1>2, Constants
  <2> QED
    BY <1>1, <1>2, <2>1, <2>2, <2>3 DEF TypeOK
<1>4. \A t \in Table : got'[t] = None
  BY <1>1, <1>2 DEF TypeOK
<1>5. AnswersAreOneRun'
  BY <1>4 DEF AnswersAreOneRun
<1>6. Asking'
  BY <1>1, <1>2, Constants DEF Asking, rowVars
<1> QED
  BY <1>1, <1>3, <1>5, <1>6, ClientKeeps

(* A query sees rows of the completed run only, since no other run that has rows is
   left. *)
LEMMA GetKeeps ==
  ASSUME IInv, NEW t \in Table, Get(t)
  PROVE  IInv'
<1> DEFINE found == {r \in rows : r.table = t}
<1>1. /\ polled # None /\ got' = [got EXCEPT ![t] = found]
      /\ UNCHANGED <<rowVars, workVars>> /\ polled' = polled /\ counted' = counted
  BY DEF Get
<1>2. TypeOK /\ polled \in Run
  BY <1>1 DEF IInv, TypeOK
<1>3. /\ current' = current /\ status' = status /\ rows' = rows /\ phase' = phase
      /\ commands' = commands /\ next' = next /\ open' = open /\ tx' = tx
  BY <1>1 DEF rowVars, workVars
<1>4. got'[t] = found /\ DOMAIN got' = Table /\ \A u \in Table \ {t} : got'[u] = got[u]
  <2> HIDE DEF found
  <2> QED
    BY <1>1, <1>2 DEF TypeOK
<1>5. TypeOK'
  <2>1. \A n \in Run : RowsOf(n)' = RowsOf(n)
    BY DEF RowsOf
  <2> QED
    BY <1>1, <1>2, <1>3, <1>4, <2>1 DEF TypeOK
<1>6. AnswersAreOneRun'
  <2> SUFFICES ASSUME polled = current, \A n \in Run : ~FailedToInsert(n),
                      NEW u \in Table, got'[u] # None
               PROVE  got'[u] = {r \in RowsOf(polled) : r.table = u}
    <3>1. \A n \in Run : FailedToInsert(n)' <=> FailedToInsert(n)
      BY <1>3 DEF FailedToInsert
    <3>2. RowsOf(polled)' = RowsOf(polled)
      BY <1>1 DEF RowsOf
    <3> QED
      BY <1>1, <1>3, <3>1, <3>2 DEF AnswersAreOneRun
  <2>1. CASE u # t
    BY <1>1, <1>4, <2>1 DEF IInv, AnswersAreOneRun
  <2>2. CASE u = t
    <3>1. status = "COMPLETED"
      BY <1>1 DEF IInv, Asking
    <3>2. RowsOf(current) \subseteq rows
      BY <3>1 DEF IInv, CompletedIsComplete
    <3>3. ASSUME NEW r \in rows
          PROVE  r \in RowsOf(current)
      <4>1. PICK n \in Run : r \in RowsOf(n)
        BY <1>2 DEF TypeOK
      <4>2. n = current
        BY <4>1 DEF IInv, OthersAllOrNothing
      <4> QED
        BY <4>1, <4>2
    <3> QED
      BY <1>4, <2>2, <3>2, <3>3
  <2> QED
    BY <2>1, <2>2
<1>7. Asking'
  BY <1>1, <1>3 DEF IInv, Asking
<1> QED
  BY <1>1, <1>5, <1>6, <1>7, ClientKeeps

(* Counting wallets reads winners only. *)
LEMMA CountKeeps ==
  ASSUME IInv, CountUniqueWallets
  PROVE  IInv'
<1>1. /\ polled = None /\ UNCHANGED <<rowVars, workVars>> /\ polled' = polled /\ got' = got
  BY DEF CountUniqueWallets
<1>2. /\ current' = current /\ status' = status /\ rows' = rows /\ phase' = phase
      /\ commands' = commands /\ next' = next /\ open' = open /\ tx' = tx
  BY <1>1 DEF rowVars, workVars
<1>3. TypeOK'
  <2>1. \A n \in Run : RowsOf(n)' = RowsOf(n)
    BY DEF RowsOf
  <2> QED
    BY <1>1, <1>2, <2>1 DEF IInv, TypeOK
<1>4. AnswersAreOneRun' /\ Asking'
  BY <1>1 DEF AnswersAreOneRun, Asking
<1> QED
  BY <1>1, <1>3, <1>4, ClientKeeps

(* A client begins again. *)
LEMMA ForgetKeeps ==
  ASSUME IInv, Forget
  PROVE  IInv'
<1>1. /\ polled' = None /\ got' = [t \in Table |-> None] /\ counted' = None
      /\ UNCHANGED <<rowVars, workVars>>
  BY DEF Forget
<1>2. /\ current' = current /\ status' = status /\ rows' = rows /\ phase' = phase
      /\ commands' = commands /\ next' = next /\ open' = open /\ tx' = tx
  BY <1>1 DEF rowVars, workVars
<1>3. TypeOK'
  <2>1. \A n \in Run : RowsOf(n)' = RowsOf(n)
    BY DEF RowsOf
  <2> QED
    BY <1>1, <1>2, <2>1 DEF IInv, TypeOK
<1>4. AnswersAreOneRun' /\ Asking'
  BY <1>1 DEF AnswersAreOneRun, Asking
<1> QED
  BY <1>1, <1>3, <1>4, ClientKeeps

(* Nothing happens. *)
LEMMA StutterKeeps ==
  ASSUME IInv, UNCHANGED vars
  PROVE  IInv'
<1>1. /\ UNCHANGED <<rowVars, workVars>> /\ polled' = polled /\ got' = got
      /\ counted' = counted
  BY DEF vars, clientVars
<1>2. /\ current' = current /\ status' = status /\ rows' = rows /\ phase' = phase
      /\ commands' = commands /\ next' = next /\ open' = open /\ tx' = tx
  BY <1>1 DEF rowVars, workVars
<1>3. \A n \in Run : RowsOf(n)' = RowsOf(n) /\ FailedToInsert(n)' = FailedToInsert(n)
  BY <1>2 DEF RowsOf, FailedToInsert
<1>4. TypeOK'
  BY <1>1, <1>2, <1>3 DEF IInv, TypeOK
<1>5. AnswersAreOneRun' /\ Asking'
  <2>1. polled # None => polled \in Run
    BY DEF IInv, TypeOK
  <2> QED
    BY <1>1, <1>2, <1>3, <2>1 DEF IInv, AnswersAreOneRun, Asking
<1> QED
  BY <1>1, <1>4, <1>5, ClientKeeps
-------------------------------------------------------------------------------
(* What the database does with a command. *)
LEMMA ExecuteKeeps ==
  ASSUME IInv, NEW n \in Run, Execute(n)
  PROVE  IInv'
<1>1. ASSUME NEW t \in Table, CreateMany(n, t)
      PROVE  IInv'
  BY <1>1, InsertedKeeps, InsertFailsKeeps DEF CreateMany
<1>2. CASE \/ CreatePools(n) \/ CreatePhases(n) \/ CreateComponents(n)
           \/ CreateWinners(n) \/ CreateItems(n)
  BY <1>1, <1>2
     DEF CreatePools, CreatePhases, CreateComponents, CreateWinners, CreateItems, Table
<1>3. CASE Commit(n)
  BY <1>3, CommitKeeps
<1>4. CASE Rollback(n)
  BY <1>4, RollbackKeeps
<1>5. CASE Break(n)
  BY <1>5, BreakKeeps
<1> QED
  BY <1>2, <1>3, <1>4, <1>5 DEF Execute

(* Any step keeps the invariant. *)
LEMMA StepKeeps ==
  ASSUME IInv, [Next]_vars
  PROVE  IInv'
<1>1. CASE Plan
  BY <1>1, PlanKeeps
<1>2. ASSUME NEW n \in Run, Claim(n)
      PROVE  IInv'
  BY <1>2, ClaimKeeps
<1>3. ASSUME NEW n \in Run, WorkerStep(n)
      PROVE  IInv'
  BY <1>3, InsertResultsKeeps, ExecuteKeeps, CompleteKeeps, StepFailsKeeps, ReportErrorKeeps
     DEF WorkerStep
<1>4. CASE ClientStep
  <2>1. CASE Poll
    BY <2>1, PollKeeps
  <2>2. CASE GetPools \/ GetPhases \/ GetComponents \/ GetWinners \/ GetItems
    <3>1. PICK t \in Table : Get(t)
      BY <2>2 DEF GetPools, GetPhases, GetComponents, GetWinners, GetItems, Table
    <3> QED
      BY <3>1, GetKeeps
  <2>3. CASE CountUniqueWallets
    BY <2>3, CountKeeps
  <2>4. CASE Forget
    BY <2>4, ForgetKeeps
  <2> QED
    BY <1>4, <2>1, <2>2, <2>3, <2>4 DEF ClientStep
<1>5. CASE UNCHANGED vars
  BY <1>5, StutterKeeps
<1> QED
  BY <1>1, <1>2, <1>3, <1>4, <1>5 DEF Next

(* The invariant holds at all times. *)
LEMMA Invariance == Spec => []IInv
<1> QED
  BY InitCorrect, StepKeeps, PTL DEF Spec

(* The variables keep their types, and a completed run has all of its rows in the
   tables: a COMMIT is sent once, after every loop has ended, and Complete after it. *)
THEOREM CompletedRunsAreComplete == Spec => []TablesConsistent
<1>1. IInv => TablesConsistent
  BY DEF IInv, TablesConsistent
<1> QED
  BY <1>1, Invariance, PTL

(* All rows of a run are to be seen or none, and none of a run that has been replaced,
   unless one of its own inserts failed: whatever other runs, and the loops a failure of
   theirs has left behind, do meanwhile. *)
THEOREM RunsAreAllOrNothing == Spec => []OthersAllOrNothing
<1>1. IInv => OthersAllOrNothing
  BY DEF IInv
<1> QED
  BY <1>1, Invariance, PTL

(* An answer put together of several queries while runs are planned, inserted and
   replaced is of one run, unless the run is no longer the current one or an insert has
   failed. *)
THEOREM AnswersOfOneRun == Spec => []AnswersAreOneRun
<1>1. IInv => AnswersAreOneRun
  BY DEF IInv
<1> QED
  BY <1>1, Invariance, PTL
-------------------------------------------------------------------------------
(* A sum over a set, as MapThenSumSet computes it, of the sizes of sets.     *)
First(s) == CHOOSE x \in s : TRUE
IsSum(f, S, W) ==
  f = [s \in SUBSET S |->
         IF s = {} THEN 0 ELSE Cardinality(W[First(s)]) + f[s \ {First(s)}]]

(* The elements of these sets, told apart.                                   *)
Pairs(s, W) == UNION {{p} \X W[p] : p \in s}

LEMMA FiniteImage ==
  ASSUME NEW S, IsFiniteSet(S), NEW f, DOMAIN f = S
  PROVE  IsFiniteSet({f[x] : x \in S})
<1> DEFINE T == {f[x] : x \in S}
           g == [x \in S |-> f[x]]
<1>1. g \in Surjection(S, T)
  BY DEF Surjection
<1> QED
  BY <1>1, FS_Surjection

LEMMA PairsOfOneMore ==
  ASSUME NEW S, IsFiniteSet(S), NEW W, \A p \in S : IsFiniteSet(W[p]),
         NEW s \in SUBSET S
  PROVE  /\ IsFiniteSet(Pairs(s, W)) /\ Cardinality(Pairs(s, W)) \in Nat
         /\ s # {} => /\ First(s) \in s
                      /\ Cardinality(Pairs(s, W)) =
                           Cardinality(W[First(s)]) + Cardinality(Pairs(s \ {First(s)}, W))
<1>1. ASSUME NEW p \in S
      PROVE  /\ IsFiniteSet({p} \X W[p])
             /\ Cardinality({p} \X W[p]) = Cardinality(W[p])
             /\ Cardinality(W[p]) \in Nat
  <2>1. IsFiniteSet({p}) /\ Cardinality({p}) = 1
    BY FS_Singleton
  <2>2. Cardinality(W[p]) \in Nat
    BY FS_CardinalityType
  <2>3. /\ IsFiniteSet({p} \X W[p])
        /\ Cardinality({p} \X W[p]) = Cardinality({p}) * Cardinality(W[p])
    BY <2>1, FS_Product
  <2> QED
    BY <2>1, <2>2, <2>3
<1>2. ASSUME NEW t \in SUBSET S PROVE IsFiniteSet(Pairs(t, W)) /\ Cardinality(Pairs(t, W)) \in Nat
  <2> DEFINE h == [p \in t |-> {p} \X W[p]]
  <2>1. IsFiniteSet(t)
    BY FS_Subset
  <2>2. IsFiniteSet({h[p] : p \in t})
    <3>1. DOMAIN h = t
      OBVIOUS
    <3> HIDE DEF h
    <3> QED
      BY <2>1, <3>1, FiniteImage
  <2>3. {h[p] : p \in t} = {{p} \X W[p] : p \in t}
    OBVIOUS
  <2>4. \A X \in {{p} \X W[p] : p \in t} : IsFiniteSet(X)
    BY <1>1
  <2> QED
    BY <2>2, <2>3, <2>4, FS_UNION, FS_CardinalityType DEF Pairs
<1>3. ASSUME s # {}
      PROVE  /\ First(s) \in s
             /\ Cardinality(Pairs(s, W)) =
                  Cardinality(W[First(s)]) + Cardinality(Pairs(s \ {First(s)}, W))
  <2> DEFINE x == First(s)
             one == {x} \X W[x]
             rest == Pairs(s \ {x}, W)
  <2>1. x \in s
    BY <1>3 DEF First
  <2> HIDE DEF x
  <2>2. Pairs(s, W) = one \cup rest
    BY <2>1 DEF Pairs
  <2>3. one \cap rest = {}
    BY DEF Pairs
  <2>4. IsFiniteSet(one) /\ Cardinality(one) = Cardinality(W[x]) /\ Cardinality(W[x]) \in Nat
    BY <1>1, <2>1
  <2>5. IsFiniteSet(rest) /\ Cardinality(rest) \in Nat
    BY <1>2
  <2> HIDE DEF one, rest
  <2>6. Cardinality(one \cup rest) = Cardinality(one) + Cardinality(rest)
    <3>1. Cardinality(one \cap rest) = 0
      BY <2>3, FS_EmptySet
    <3>2. Cardinality(one \cup rest) =
            Cardinality(one) + Cardinality(rest) - Cardinality(one \cap rest)
      BY <2>4, <2>5, FS_Union
    <3> QED
      BY <2>4, <2>5, <3>1, <3>2
  <2> QED
    BY <2>1, <2>2, <2>4, <2>5, <2>6 DEF x, rest
<1> QED
  BY <1>2, <1>3

LEMMA SumOfSizes ==
  ASSUME NEW S, IsFiniteSet(S), NEW W, \A p \in S : IsFiniteSet(W[p])
  PROVE  /\ \E f : IsSum(f, S, W)
         /\ \A f : IsSum(f, S, W) => f[S] = Cardinality(Pairs(S, W))
<1> DEFINE g == [s \in SUBSET S |-> Cardinality(Pairs(s, W))]
<1>1. g[{}] = 0
  <2>1. Pairs({}, W) = {}
    BY DEF Pairs
  <2> QED
    BY <2>1, FS_EmptySet
<1>2. \A s \in SUBSET S : s # {} =>
        /\ First(s) \in s /\ g[s] = Cardinality(W[First(s)]) + g[s \ {First(s)}]
  BY PairsOfOneMore
<1>3. IsSum(g, S, W)
  <2>1. g = [s \in SUBSET S |-> g[s]]
    OBVIOUS
  <2> HIDE DEF g
  <2>2. \A s \in SUBSET S :
          g[s] = IF s = {} THEN 0 ELSE Cardinality(W[First(s)]) + g[s \ {First(s)}]
    BY <1>1, <1>2
  <2> QED
    BY <2>1, <2>2 DEF IsSum
<1> HIDE DEF g
<1>4. ASSUME NEW f, IsSum(f, S, W) PROVE f[S] = g[S]
  <2> DEFINE Bad == {s \in SUBSET S : f[s] # g[s]}
  <2>1. SUFFICES ASSUME Bad # {} PROVE FALSE
    <3>1. S \in SUBSET S
      OBVIOUS
    <3> QED
      BY <2>1, <3>1
  <2>2. IsWellFoundedOn(StrictSubsetOrdering(S), SUBSET S)
    BY FS_StrictSubsetOrderingWellFounded, FS_FiniteSubsetsOfFinite
  <2>3. PICK s \in Bad : \A u \in Bad : ~(<<u, s>> \in StrictSubsetOrdering(S))
    BY <2>1, <2>2, WFMin
  <2>4. s \in SUBSET S /\ f[s] # g[s]
    OBVIOUS
  <2>5. \A u \in SUBSET s : u # s => f[u] = g[u]
    <3> SUFFICES ASSUME NEW u \in SUBSET s, u # s, f[u] # g[u] PROVE FALSE
      OBVIOUS
    <3>1. u \in Bad
      BY <2>4
    <3> QED
      BY <2>3, <2>4, <3>1 DEF StrictSubsetOrdering
  <2>6. f[s] = IF s = {} THEN 0 ELSE Cardinality(W[First(s)]) + f[s \ {First(s)}]
    BY <1>4, <2>4 DEF IsSum
  <2>7. CASE s = {}
    BY <1>1, <2>4, <2>6, <2>7
  <2>8. CASE s # {}
    <3>1. First(s) \in s /\ g[s] = Cardinality(W[First(s)]) + g[s \ {First(s)}]
      BY <1>2, <2>4, <2>8
    <3>2. f[s \ {First(s)}] = g[s \ {First(s)}]
      BY <2>5, <3>1
    <3> QED
      BY <2>4, <2>6, <2>8, <3>1, <3>2
  <2> QED
    BY <2>7, <2>8
<1>5. g[S] = Cardinality(Pairs(S, W))
  BY DEF g
<1> QED
  BY <1>3, <1>4, <1>5

(* A draft whose operations all execute, with what it names.                 *)
LEMMA PoolsOfDraft ==
  ASSUME NEW all \in Drafts, NEW p, Exists(RelevantOps(all), p)
  PROVE  /\ IsFiniteSet(Owners(RelevantOps(all), p))
         /\ \A w : w \in Owners(RelevantOps(all), p) <=> Owns(all, w, p)
<1> DEFINE ops == RelevantOps(all)
           create == With(all, "CREATE_CUSTOM_TOKEN_POOL")
<1>1. With(ops, "CREATE_CUSTOM_TOKEN_POOL") = create
  BY DEF RelevantOps, With
<1>2. CASE p.type = "TOKEN_POOL"
  <2>1. /\ p.id \in DOMAIN PoolTokens
        /\ Owners(ops, p) = PoolTokens[p.id]
    BY <1>2 DEF Exists, Owners, Pools, TokenPools
  <2> QED
    BY <1>2, <2>1, DraftsAssumption DEF Owns
<1>3. CASE p.type # "TOKEN_POOL"
  <2>1. Pools(ops, p) = [i \in {o.id : o \in create} |-> (CHOOSE o \in create : o.id = i).owners]
    <3>1. Pools(ops, p) = CustomPools(ops)
      BY <1>3 DEF Pools
    <3> HIDE DEF create, ops
    <3> QED
      BY <1>1, <3>1 DEF CustomPools
  <2>2. p.id \in {o.id : o \in create}
    BY <2>1 DEF Exists
  <2>3. PICK o \in create : o.id = p.id
    BY <2>2
  <2>4. \A q \in create : q.id = p.id => q = o
    BY <2>3, DraftsAssumption
  <2>5. Owners(ops, p) = o.owners
    <3>1. (CHOOSE q \in create : q.id = p.id) = o
      BY <2>3, <2>4
    <3> QED
      BY <2>1, <2>2, <3>1 DEF Owners
  <2>6. IsFiniteSet(o.owners)
    BY <2>3, DraftsAssumption
  <2>7. \A w : Owns(all, w, p) <=> w \in o.owners
    BY <1>3, <2>3, <2>4 DEF Owns
  <2> QED
    BY <2>5, <2>6, <2>7
<1> QED
  BY <1>2, <1>3

(* What is left of an item: the owners whom no operation removes.            *)
LEMMA ItemLeft ==
  ASSUME NEW all \in Drafts, NEW winners,
         \A o \in RelevantOps(all) : Executes(RelevantOps(all), winners, o),
         NEW a \in With(all, "ADD_ITEM")
  PROVE  /\ IsFiniteSet(ItemWallets(RelevantOps(all), winners, a))
         /\ \A w : w \in ItemWallets(RelevantOps(all), winners, a) <=>
              /\ Owns(all, w, a.pool)
              /\ \A o \in With(all, "REMOVE_POOL_WALLETS") :
                   o.item = a.id => \A p \in o.pools : ~Owns(all, w, p)
              /\ \A o \in With(all, "REMOVE_COMPONENT_WALLETS") :
                   o.item = a.id => \A v \in winners :
                     v.component \in o.components => v.wallet # w
<1> DEFINE ops == RelevantOps(all)
           pools == With(all, "REMOVE_POOL_WALLETS")
           components == With(all, "REMOVE_COMPONENT_WALLETS")
           mock == Mock(ops, winners)
<1>1. /\ With(ops, "REMOVE_POOL_WALLETS") = pools
      /\ With(ops, "REMOVE_COMPONENT_WALLETS") = components
      /\ a \in ops /\ a.code = "ADD_ITEM" /\ pools \subseteq ops
      /\ \A o \in pools : o.code = "REMOVE_POOL_WALLETS"
      /\ \A o \in components : o.code = "REMOVE_COMPONENT_WALLETS"
  BY DEF RelevantOps, With
<1>2. Exists(ops, a.pool) /\ \A o \in pools : \A p \in o.pools : Exists(ops, p)
  BY <1>1 DEF Executes
<1>3. ASSUME NEW o \in pools, NEW w
      PROVE  w \in Removed(ops, winners, o) <=> \E p \in o.pools : Owns(all, w, p)
  <2>1. Removed(ops, winners, o) = UNION {Owners(ops, p) : p \in o.pools}
    BY <1>1 DEF Removed
  <2>2. \A p \in o.pools : w \in Owners(ops, p) <=> Owns(all, w, p)
    BY <1>2, PoolsOfDraft
  <2> QED
    BY <2>1, <2>2
<1>4. ASSUME NEW o \in components, NEW w
      PROVE  w \in Removed(ops, winners, o) <=>
               \E v \in winners : v.component \in o.components /\ v.wallet = w
  <2>1. Removed(ops, winners, o) = UNION {mock[c] : c \in o.components \cap DOMAIN mock}
    BY <1>1 DEF Removed
  <2>2. \A c \in o.components : c \in WinnerComponentIds(ops)
    BY <1>1 DEF WinnerComponentIds
  <2>3. \A c \in o.components : c \in DOMAIN mock <=> \E v \in winners : v.component = c
    BY <2>2 DEF Mock, ComponentWinners
  <2>4. \A c \in DOMAIN mock :
          mock[c] = {v.wallet : v \in {u \in winners : u.component = c}}
    BY DEF Mock, ComponentWinners
  <2> HIDE DEF mock
  <2> QED
    BY <2>1, <2>3, <2>4
<1>5. ASSUME NEW w
      PROVE  w \in ItemWallets(ops, winners, a) <=>
               /\ w \in Owners(ops, a.pool)
               /\ \A o \in pools : o.item = a.id => w \notin Removed(ops, winners, o)
               /\ \A o \in components : o.item = a.id => w \notin Removed(ops, winners, o)
  <2> HIDE DEF ops, pools, components
  <2> QED
    BY <1>1 DEF ItemWallets
<1>6. ItemWallets(ops, winners, a) \in SUBSET Owners(ops, a.pool)
  BY DEF ItemWallets
<1>7. /\ IsFiniteSet(Owners(ops, a.pool))
      /\ \A w : w \in Owners(ops, a.pool) <=> Owns(all, w, a.pool)
  BY <1>2, PoolsOfDraft
<1>8. IsFiniteSet(ItemWallets(ops, winners, a))
  BY <1>6, <1>7, FS_Subset
<1> HIDE DEF ops, pools, components
<1> QED
  BY <1>3, <1>4, <1>5, <1>7, <1>8 DEF ops, pools, components

(* A count that is not refused is of the wallets that are left.              *)
LEMMA CountIsOfLeft ==
  ASSUME NEW all \in Drafts, NEW winners, UniqueWalletsCount(all, winners) # None
  PROVE  /\ UniqueWalletsCount(all, winners) = Cardinality(Left(all, winners))
         /\ \A o \in RelevantOps(all) : Executes(RelevantOps(all), winners, o)
<1> DEFINE ops == RelevantOps(all)
           S == PhaseIds(ops)
           Count(p) == Cardinality(PhaseWallets(ops, winners, p))
           W == [p \in S |-> PhaseWallets(ops, winners, p)]
           items == With(all, "ADD_ITEM")
           phased == With(all, "ADD_COMPONENT")
<1>1. /\ \A o \in ops : Executes(ops, winners, o)
      /\ UniqueWalletsCount(all, winners) = MapThenSumSet(Count, S)
  BY DEF UniqueWalletsCount
<1>2. /\ With(ops, "ADD_ITEM") = items /\ With(ops, "ADD_COMPONENT") = phased
      /\ S = {o.phase : o \in phased} /\ S = PhaseIds(all)
      /\ IsFiniteSet(items) /\ IsFiniteSet(phased)
  <2>1. With(ops, "ADD_ITEM") = items /\ With(ops, "ADD_COMPONENT") = phased
    BY DEF RelevantOps, With
  <2>2. IsFiniteSet(all) /\ items \in SUBSET all /\ phased \in SUBSET all
    BY DraftsAssumption DEF With
  <2>3. IsFiniteSet(items) /\ IsFiniteSet(phased)
    BY <2>2, FS_Subset
  <2> QED
    BY <2>1, <2>3 DEF PhaseIds
<1>3. \A a \in items : IsFiniteSet(ItemWallets(ops, winners, a))
  BY <1>1, ItemLeft
<1>4. ASSUME NEW p
      PROVE  PhaseWallets(ops, winners, p) =
               UNION {ItemWallets(ops, winners, a) :
                        a \in {b \in items : \E c \in phased : c.id = b.component /\ c.phase = p}}
  BY <1>2 DEF PhaseWallets
<1>5. IsFiniteSet(S)
  <2> DEFINE h == [o \in phased |-> o.phase]
  <2>1. DOMAIN h = phased /\ S = {h[o] : o \in phased}
    BY <1>2
  <2> HIDE DEF h, phased, S
  <2> QED
    BY <1>2, <2>1, FiniteImage
<1>6. \A p \in S : IsFiniteSet(W[p])
  <2> SUFFICES ASSUME NEW p \in S PROVE IsFiniteSet(PhaseWallets(ops, winners, p))
    OBVIOUS
  <2> DEFINE mine == {b \in items : \E c \in phased : c.id = b.component /\ c.phase = p}
             h == [a \in mine |-> ItemWallets(ops, winners, a)]
  <2>1. mine \in SUBSET items /\ IsFiniteSet(mine)
    BY <1>2, FS_Subset
  <2>2. IsFiniteSet({h[a] : a \in mine})
    <3>1. DOMAIN h = mine
      OBVIOUS
    <3> HIDE DEF h, mine
    <3> QED
      BY <2>1, <3>1, FiniteImage
  <2>3. {h[a] : a \in mine} = {ItemWallets(ops, winners, a) : a \in mine}
    OBVIOUS
  <2>4. \A X \in {ItemWallets(ops, winners, a) : a \in mine} : IsFiniteSet(X)
    BY <1>3
  <2> QED
    BY <1>4, <2>2, <2>3, <2>4, FS_UNION
<1>7. MapThenSumSet(Count, S) = Cardinality(Pairs(S, W))
  <2> DEFINE Sum(f) == f = [s \in SUBSET S |-> IF s = {} THEN 0
                              ELSE Count(CHOOSE x \in s : TRUE) + f[s \ {CHOOSE x \in s : TRUE}]]
  <2>1. MapThenSumSet(Count, S) = (CHOOSE f : Sum(f))[S]
    BY DEF MapThenSumSet, MapThenFoldSet
  <2>2. \A x \in S : Count(x) = Cardinality(W[x])
    OBVIOUS
  <2> HIDE DEF Count, W, S
  <2>3. ASSUME NEW f PROVE Sum(f) <=> IsSum(f, S, W)
    <3>1. \A s \in SUBSET S : s # {} => Count(First(s)) = Cardinality(W[First(s)])
      BY <2>2 DEF First
    <3>2. [s \in SUBSET S |-> IF s = {} THEN 0
             ELSE Count(First(s)) + f[s \ {First(s)}]] =
          [s \in SUBSET S |-> IF s = {} THEN 0
             ELSE Cardinality(W[First(s)]) + f[s \ {First(s)}]]
      BY <3>1
    <3> QED
      BY <3>2 DEF IsSum, First
  <2>4. /\ \E f : IsSum(f, S, W)
        /\ \A f : IsSum(f, S, W) => f[S] = Cardinality(Pairs(S, W))
    BY <1>5, <1>6, SumOfSizes
  <2> HIDE DEF Sum
  <2> QED
    BY <2>1, <2>3, <2>4
<1>8. Pairs(S, W) = Left(all, winners)
  <2> DEFINE Stays(w, a) ==
               /\ Owns(all, w, a.pool)
               /\ \A o \in With(all, "REMOVE_POOL_WALLETS") :
                    o.item = a.id => \A p \in o.pools : ~Owns(all, w, p)
               /\ \A o \in With(all, "REMOVE_COMPONENT_WALLETS") :
                    o.item = a.id => \A v \in winners :
                      v.component \in o.components => v.wallet # w
             owners == UNION ({PoolTokens[p] : p \in DOMAIN PoolTokens}
                                \cup {o.owners : o \in With(all, "CREATE_CUSTOM_TOKEN_POOL")})
             In(p, w) == \E c \in phased, a \in items :
                           c.phase = p /\ a.component = c.id /\ Stays(w, a)
  <2>1. \A a \in items : \A w : w \in ItemWallets(ops, winners, a) <=> Stays(w, a)
    BY <1>1, ItemLeft
  <2>2. \A w, a : Owns(all, w, a.pool) => w \in owners
    BY DEF Owns
  <2>3. Left(all, winners) = {x \in S \X owners : In(x[1], x[2])}
    BY <1>2 DEF Left
  <2>4. \A p, w : In(p, w) => w \in owners
    BY <2>2
  <2> HIDE DEF Stays, owners
  <2>5. \A p \in S : \A w : w \in W[p] <=> In(p, w)
    BY <1>4, <2>1
  <2> HIDE DEF In, W, S
  <2>6. \A x : x \in Pairs(S, W) <=> \E p \in S : \E w \in W[p] : x = <<p, w>>
    BY DEF Pairs
  <2>7. \A x : x \in Left(all, winners) <=>
          \E p \in S : \E w \in owners : x = <<p, w>> /\ In(p, w)
    BY <2>3
  <2> QED
    BY <2>4, <2>5, <2>6, <2>7
<1> QED
  BY <1>1, <1>7, <1>8

(* An insert that has failed is not repeated.                                *)
LEMMA FailuresStay ==
  ASSUME IInv, [Next]_vars, NEW n \in Run, FailedToInsert(n)
  PROVE  FailedToInsert(n)'
<1>1. PICK u \in Table : next[n][u] = 0
  BY DEF FailedToInsert
<1>2. SUFFICES next'[n][u] = 0
  BY DEF FailedToInsert
<1>3. next \in [Run -> [Table -> Nat]]
  BY DEF IInv, TypeOK
<1>4. CASE next' = next
  BY <1>1, <1>4
<1>5. ASSUME NEW m \in Run, NEW t \in Table, CreateMany(m, t)
      PROVE  next'[n][u] = 0
  <2>1. next[m][t] \in Nat \ {0}
    BY <1>5, LoopFacts DEF CreateMany
  <2>2. m = n => u # t
    BY <1>1, <2>1
  <2>3. next' = [next EXCEPT ![m] = [next[m] EXCEPT ![t] = next[m][t] + 1]]
          \/ next' = [next EXCEPT ![m][t] = 0]
    BY <1>5 DEF CreateMany, Inserted, InsertFails
  <2> QED
    BY <1>1, <1>3, <2>2, <2>3
<1>6. next' = next \/ \E m \in Run, t \in Table : CreateMany(m, t)
  <2>1. CASE Plan \/ ClientStep \/ UNCHANGED vars
    BY <2>1 DEF Plan, ClientStep, Poll, GetPools, GetPhases, GetComponents, GetWinners,
                GetItems, Get, CountUniqueWallets, Forget, vars, workVars
  <2>2. ASSUME NEW m \in Run, Claim(m) \/ WorkerStep(m)
        PROVE  next' = next \/ \E t \in Table : CreateMany(m, t)
    <3>1. CASE \/ Claim(m) \/ InsertResults(m) \/ Complete(m) \/ StepFails(m)
               \/ ReportError(m) \/ Commit(m) \/ Rollback(m) \/ Break(m)
      BY <3>1 DEF Claim, InsertResults, Complete, StepFails, ReportError, Commit, Rollback,
                  Break
    <3>2. CASE \/ CreatePools(m) \/ CreatePhases(m) \/ CreateComponents(m)
               \/ CreateWinners(m) \/ CreateItems(m)
      BY <3>2 DEF CreatePools, CreatePhases, CreateComponents, CreateWinners, CreateItems, Table
    <3> QED
      BY <2>2, <3>1, <3>2 DEF WorkerStep, Execute
  <2> QED
    BY <2>1, <2>2 DEF Next
<1> QED
  BY <1>4, <1>5, <1>6

(* What a count finds is nothing, or all rows of one run.                    *)
LEMMA CountFindsOneRun ==
  ASSUME IInv, \A n \in Run : ~FailedToInsert(n)
  PROVE  rows = {} \/ \E n \in Run : rows = RowsOf(n)
<1>1. rows \subseteq UNION {RowsOf(n) : n \in Run}
  BY DEF IInv, TypeOK
<1>2. \A n \in Run : rows \cap RowsOf(n) # {} => n = current /\ RowsOf(n) \subseteq rows
  BY DEF IInv, OthersAllOrNothing
<1>3. ASSUME rows # {} PROVE \E n \in Run : rows = RowsOf(n)
  <2>1. PICK n \in Run : rows \cap RowsOf(n) # {}
    BY <1>1, <1>3
  <2>2. \A m \in Run : rows \cap RowsOf(m) # {} => m = n
    BY <1>2, <2>1
  <2>3. rows \subseteq RowsOf(n)
    BY <1>1, <2>2
  <2> QED
    BY <1>2, <2>1, <2>3
<1> QED
  BY <1>3

LEMMA CountStep ==
  ASSUME IInv, CountsAreOfOneRun, [Next]_vars
  PROVE  CountsAreOfOneRun'
<1>1. CASE counted' = counted
  BY <1>1, FailuresStay DEF CountsAreOfOneRun
<1>2. CASE counted' = None
  BY <1>2 DEF CountsAreOfOneRun
<1>3. CASE CountUniqueWallets
  <2>1. PICK ops \in Drafts :
          counted' = [ops |-> ops, answer |-> UniqueWalletsCount(ops, WinnersOf(rows))]
    BY <1>3 DEF CountUniqueWallets
  <2>2. counted'.ops = ops /\ counted'.answer = UniqueWalletsCount(ops, WinnersOf(rows))
    BY <2>1
  <2> SUFFICES ASSUME UniqueWalletsCount(ops, WinnersOf(rows)) # None,
                      \A n \in Run : ~FailedToInsert(n)'
               PROVE  \/ \E n \in Run : counted'.answer = Cardinality(Left(ops, WinnersOf(RowsOf(n))))
                      \/ /\ counted'.answer = Cardinality(Left(ops, {}))
                         /\ \A o \in With(ops, "REMOVE_COMPONENT_WALLETS") :
                              o.components \subseteq {c.id : c \in With(ops, "ADD_COMPONENT")}
    BY <2>2 DEF CountsAreOfOneRun
  <2>3. counted'.answer = Cardinality(Left(ops, WinnersOf(rows)))
    BY <2>2, CountIsOfLeft
  <2>4. rows = {} \/ \E n \in Run : rows = RowsOf(n)
    BY FailuresStay, CountFindsOneRun
  <2>5. CASE rows = {}
    <3>1. WinnersOf(rows) = {}
      BY <2>5 DEF WinnersOf
    <3>2. \A o \in RelevantOps(ops) : Executes(RelevantOps(ops), {}, o)
      BY <3>1, CountIsOfLeft
    <3>3. ASSUME NEW o \in With(ops, "REMOVE_COMPONENT_WALLETS")
          PROVE  o.components \subseteq {c.id : c \in With(ops, "ADD_COMPONENT")}
      <4>1. o \in RelevantOps(ops) /\ o.code = "REMOVE_COMPONENT_WALLETS"
        BY DEF RelevantOps, With
      <4>2. With(RelevantOps(ops), "ADD_COMPONENT") = With(ops, "ADD_COMPONENT")
        BY DEF RelevantOps, With
      <4>3. DOMAIN Mock(RelevantOps(ops), {}) = {}
        BY DEF Mock, ComponentWinners
      <4> QED
        BY <3>2, <4>1, <4>2, <4>3 DEF Executes
    <3> QED
      BY <2>3, <3>1, <3>3
  <2>6. CASE \E n \in Run : rows = RowsOf(n)
    BY <2>3, <2>6
  <2> QED
    BY <2>4, <2>5, <2>6
<1>4. counted' = counted \/ counted' = None \/ CountUniqueWallets
  <2>1. CASE Plan \/ ClientStep \/ UNCHANGED vars
    BY <2>1 DEF Plan, ClientStep, Poll, GetPools, GetPhases, GetComponents, GetWinners,
                GetItems, Get, Forget, vars, clientVars
  <2>2. ASSUME NEW m \in Run, Claim(m) \/ WorkerStep(m)
        PROVE  counted' = counted
    <3>1. UNCHANGED clientVars
      BY <2>2 DEF Claim, WorkerStep, InsertResults, Complete, StepFails, ReportError, Execute,
                  CreatePools, CreatePhases, CreateComponents, CreateWinners, CreateItems,
                  CreateMany, Inserted, InsertFails, Commit, Rollback, Break
    <3> QED
      BY <3>1 DEF clientVars
  <2> QED
    BY <2>1, <2>2 DEF Next
<1> QED
  BY <1>1, <1>2, <1>3, <1>4

(* The winners that a count of wallets removes are those of one run.         *)
THEOREM CountsOfOneRun == Spec => []CountsAreOfOneRun
<1>1. Init => CountsAreOfOneRun
  BY DEF Init, CountsAreOfOneRun
<1>2. IInv /\ CountsAreOfOneRun /\ [Next]_vars => CountsAreOfOneRun'
  BY CountStep
<1> QED
  BY <1>1, <1>2, Invariance, PTL DEF Spec
===============================================================================
