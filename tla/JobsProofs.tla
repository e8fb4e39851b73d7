----------------------------- MODULE JobsProofs -----------------------------
(***************************************************************************)
(* Proofs about JobEnqueue for any transactions, keys and plans, and about *)
(* WorkerHealth for any sites, slots, poll interval and hanging databases. *)
(***************************************************************************)
EXTENDS JobEnqueue, WorkerHealth, TLAPS

-----------------------------------------------------------------------------
\* Enqueue.

\* The row that Enqueue returned to t for k is there to stay, or is t's own.
Stands(t, k) ==
    /\ given[t][k] \in Txs
    /\ \/ row[given[t][k]][k] \in {"live", "finished"}
       \/ given[t][k] = t /\ row[t][k] = "pending"

\* The row that kept t from inserting k can be read, or has finished since.
Promised(t, k) == k \in finishes[t] \/ Visible(t, k) # {}

EInv ==
    /\ TypeOK
    /\ at \in [Txs -> Nat]
    /\ \A t \in Txs, k \in Keys : tx[t] = "open" => row[t][k] \in {"none", "pending"}
    /\ OneLiveJobPerKey
    /\ \A t \in Txs : tx[t] # "rolledback" => \A i \in 1..(at[t] - 1) : Stands(t, Plan[t][i])
    /\ \A t \in Txs : tx[t] = "committed" => at[t] > Len(Plan[t])
    /\ \A t \in Txs : (tx[t] = "open" /\ conflicted[t]) =>
                         at[t] <= Len(Plan[t]) /\ Promised(t, Key(t))
    /\ RefusedOnlyByAFinish

\* What a step may do to a row.
Evolves(u, k) ==
    \/ row'[u][k] = row[u][k]
    \/ row[u][k] = "none" /\ row'[u][k] = "pending"
    \/ row[u][k] = "pending" /\ row'[u][k] = "live" /\ tx'[u] = "committed"
    \/ row[u][k] = "pending" /\ row'[u][k] = "none" /\ tx'[u] = "rolledback"
    \/ /\ row[u][k] = "live" /\ row'[u][k] = "finished"
       /\ \A t \in Txs : conflicted[t] => k \in finishes'[t]

\* The key of an enqueue under way.
LEMMA KeyType == ASSUME EInv, NEW t \in Txs, at[t] <= Len(Plan[t])
                 PROVE  Key(t) \in Keys /\ Plan[t] \in Seq(Keys) /\ at[t] \in DOMAIN Plan[t]
BY PlanAssumption DEF EInv, TypeOK, Key

LEMMA RowAt == ASSUME EInv, NEW t \in Txs, NEW k \in Keys
               PROVE  row[t][k] \in {"none", "pending", "live", "finished"}
BY DEF EInv, TypeOK

LEMMA InsertEvolves ==
    ASSUME EInv, NEW t \in Txs, Insert(t)
    PROVE  /\ \A u \in Txs, k \in Keys : Evolves(u, k)
           /\ row' \in [Txs -> [Keys -> {"none", "pending", "live", "finished"}]]
           /\ \A u \in Txs, k \in Keys :
                 row'[u][k] = IF u = t /\ k = Key(t) THEN "pending" ELSE row[u][k]
<1>1. at[t] <= Len(Plan[t]) /\ tx[t] = "open"  BY Zenon DEF Insert, Busy
<1>2. Key(t) \in Keys  BY <1>1, KeyType, Zenon
<1>3. row' = [row EXCEPT ![t][Key(t)] = "pending"]  BY Zenon DEF Insert
<1>4. row \in [Txs -> [Keys -> {"none", "pending", "live", "finished"}]]  BY Zenon DEF EInv, TypeOK
<1>5. \A u \in Txs, k \in Keys :
         row'[u][k] = IF u = t /\ k = Key(t) THEN "pending" ELSE row[u][k]
  BY <1>2, <1>3, <1>4, Zenon
<1>6. row[t][Key(t)] \in {"none", "pending"}  BY <1>1, <1>2, Zenon DEF EInv
<1>7. row' \in [Txs -> [Keys -> {"none", "pending", "live", "finished"}]]  BY <1>3, <1>4, Zenon
<1>8. QED  BY <1>5, <1>6, <1>7, Zenon DEF Evolves

LEMMA DecideEvolves ==
    ASSUME EInv, NEW t \in Txs, NEW verdict, NEW rows, Decide(t, verdict, rows),
           <<verdict, rows>> \in {<<"committed", "live">>, <<"rolledback", "none">>}
    PROVE  /\ \A u \in Txs, k \in Keys : Evolves(u, k)
           /\ row' \in [Txs -> [Keys -> {"none", "pending", "live", "finished"}]]
           /\ \A u \in Txs, k \in Keys :
                 row'[u][k] = IF u = t /\ row[u][k] = "pending" THEN rows ELSE row[u][k]
<1>1. row \in [Txs -> [Keys -> {"none", "pending", "live", "finished"}]]  BY Zenon DEF EInv, TypeOK
<1>2. tx' = [tx EXCEPT ![t] = verdict] /\ tx \in [Txs -> {"open", "committed", "rolledback"}]
  BY Zenon DEF Decide, EInv, TypeOK
<1>3. row' = [row EXCEPT ![t] = [k \in Keys |-> IF row[t][k] = "pending" THEN rows ELSE row[t][k]]]
  BY Zenon DEF Decide
<1>4. ASSUME NEW u \in Txs, NEW k \in Keys
      PROVE  row'[u][k] = IF u = t /\ row[u][k] = "pending" THEN rows ELSE row[u][k]
  <2>1. CASE u = t
    BY <1>1, <1>3, <2>1, Zenon
  <2>2. CASE u # t
    BY <1>1, <1>3, <2>2, Zenon
  <2>3. QED  BY <2>1, <2>2, Zenon
<1>5. rows \in {"live", "none"}  BY Zenon
<1>6. row' \in [Txs -> [Keys -> {"none", "pending", "live", "finished"}]]  BY <1>1, <1>3, <1>5, Zenon
<1>7. \A u \in Txs, k \in Keys : Evolves(u, k)  BY <1>2, <1>4, Zenon DEF Evolves
<1>8. QED  BY <1>4, <1>6, <1>7, Zenon

LEMMA FinishEvolves ==
    ASSUME EInv, NEW t \in Txs, NEW k \in Keys, Finish(t, k)
    PROVE  /\ \A u \in Txs, j \in Keys : Evolves(u, j)
           /\ row' \in [Txs -> [Keys -> {"none", "pending", "live", "finished"}]]
           /\ \A u \in Txs, j \in Keys :
                 row'[u][j] = IF u = t /\ j = k THEN "finished" ELSE row[u][j]
<1>1. row \in [Txs -> [Keys -> {"none", "pending", "live", "finished"}]]  BY Zenon DEF EInv, TypeOK
<1>2. /\ row' = [row EXCEPT ![t][k] = "finished"] /\ row[t][k] = "live"
      /\ \A u \in Txs : conflicted[u] => k \in finishes'[u]
  BY Zenon DEF Finish
<1>3. \A u \in Txs, j \in Keys : row'[u][j] = IF u = t /\ j = k THEN "finished" ELSE row[u][j]
  BY <1>1, <1>2, Zenon
<1>4. row' \in [Txs -> [Keys -> {"none", "pending", "live", "finished"}]]  BY <1>1, <1>2, Zenon
<1>5. ASSUME NEW u \in Txs, NEW j \in Keys PROVE Evolves(u, j)
  <2>1. CASE u = t /\ j = k
    BY <1>2, <1>3, <2>1, Zenon DEF Evolves
  <2>2. CASE ~(u = t /\ j = k)
    BY <1>3, <2>2, Zenon DEF Evolves
  <2>3. QED  BY <2>1, <2>2, Zenon
<1>6. QED  BY <1>3, <1>4, <1>5, Zenon

-----------------------------------------------------------------------------
\* What evolving rows leave in place.

LEMMA StandsKept ==
    ASSUME NEW t \in Txs, NEW k \in Keys, Stands(t, k), given'[t][k] = given[t][k],
           tx'[t] # "rolledback", \A u \in Txs, j \in Keys : Evolves(u, j)
    PROVE  Stands(t, k)'
<1>1. PICK u : u = given[t][k]  BY Zenon
<1>2. u \in Txs /\ given'[t][k] = u  BY <1>1, Zenon DEF Stands
<1>3. Evolves(u, k) /\ Evolves(t, k)  BY <1>2, Zenon
<1>4. QED  BY <1>1, <1>2, <1>3, Zenon DEF Stands, Evolves

LEMMA PromisedKept ==
    ASSUME NEW t \in Txs, NEW k \in Keys, Promised(t, k), conflicted[t], finishes[t] \subseteq finishes'[t],
           tx'[t] = "open", \A u \in Txs, j \in Keys : Evolves(u, j)
    PROVE  Promised(t, k)'
<1>1. CASE k \in finishes[t]
  BY <1>1, Zenon DEF Promised
<1>2. CASE Visible(t, k) # {}
  <2>1. PICK u \in Txs : row[u][k] = "live" \/ (u = t /\ row[u][k] = "pending")
    BY <1>2, Zenon DEF Visible
  <2>2. Evolves(u, k)  BY Zenon
  <2>3. row'[u][k] = "live" \/ (u = t /\ row'[u][k] = "pending") \/ k \in finishes'[t]
    BY <2>1, <2>2, Zenon DEF Evolves
  <2>4. QED  BY <2>3, Zenon DEF Promised, Visible
<1>3. QED  BY <1>1, <1>2, Zenon DEF Promised

\* The steps in which no transaction is given anything and none moves on.
LEMMA OthersKept ==
    ASSUME EInv, UNCHANGED <<at, given>>, \A u \in Txs, j \in Keys : Evolves(u, j),
           \A t \in Txs : conflicted[t] => finishes[t] \subseteq finishes'[t],
           \A t \in Txs : tx'[t] = tx[t] \/ (tx[t] = "open" /\ tx'[t] = "rolledback")
                             \/ (tx[t] = "open" /\ tx'[t] = "committed" /\ at[t] > Len(Plan[t])),
           \A t \in Txs : conflicted'[t] /\ tx'[t] = "open" =>
                             \/ conflicted[t]
                             \/ at[t] <= Len(Plan[t]) /\ Promised(t, Key(t))'
    PROVE  /\ \A t \in Txs : tx'[t] # "rolledback" =>
                 \A i \in 1..(at'[t] - 1) : Stands(t, Plan[t][i])'
           /\ \A t \in Txs : tx'[t] = "committed" => at'[t] > Len(Plan[t])
           /\ \A t \in Txs : (tx'[t] = "open" /\ conflicted'[t]) =>
                 at'[t] <= Len(Plan[t]) /\ Promised(t, Key(t))'
<1>1. ASSUME NEW t \in Txs, tx'[t] # "rolledback", NEW i \in 1..(at'[t] - 1)
      PROVE  Stands(t, Plan[t][i])'
  <2>1. tx[t] # "rolledback" /\ at'[t] = at[t]  BY <1>1, Zenon
  <2>2. at[t] \in 1..(Len(Plan[t]) + 1) /\ Plan[t] \in Seq(Keys)
    BY PlanAssumption DEF EInv, TypeOK
  <2>3. i \in 1..Len(Plan[t]) /\ i \in 1..(at[t] - 1)  BY <1>1, <2>1, <2>2
  <2>4. Plan[t][i] \in Keys  BY <2>2, <2>3
  <2>5. Stands(t, Plan[t][i])  BY <2>1, <2>3, Zenon DEF EInv
  <2>6. QED  BY <1>1, <2>4, <2>5, StandsKept, Zenon
<1>2. ASSUME NEW t \in Txs, tx'[t] = "open", conflicted'[t]
      PROVE  at'[t] <= Len(Plan[t]) /\ Promised(t, Key(t))'
  <2>1. CASE conflicted[t]
    <3>1. tx[t] = "open" /\ at[t] <= Len(Plan[t]) /\ Promised(t, Key(t))  BY <1>2, <2>1, Zenon DEF EInv
    <3>2. PICK k \in Keys : k = Key(t)  BY <3>1, KeyType, Zenon
    <3>3. Promised(t, k)'  BY <1>2, <2>1, <3>1, <3>2, PromisedKept, Zenon
    <3>4. Key(t)' = k  BY <3>2, Zenon DEF Key
    <3>5. QED  BY <3>1, <3>3, <3>4, Zenon DEF Promised, Visible
  <2>2. CASE ~conflicted[t]
    BY <1>2, <2>2, Zenon
  <2>3. QED  BY <2>1, <2>2, Zenon
<1>3. ASSUME NEW t \in Txs, tx'[t] = "committed" PROVE at'[t] > Len(Plan[t])
  BY <1>3, Zenon DEF EInv
<1>4. QED  BY <1>1, <1>2, <1>3, Zenon

\* The steps in which one transaction is given a row that stands.
LEMMA AdvanceKept ==
    ASSUME EInv, NEW t \in Txs, Busy(t), NEW u \in Txs, Advance(t, u), UNCHANGED <<tx, refused, finishes>>,
           \A v \in Txs, j \in Keys : Evolves(v, j),
           row' \in [Txs -> [Keys -> {"none", "pending", "live", "finished"}]],
           \A v \in Txs, k \in Keys : row'[v][k] = "pending" => tx[v] = "open",
           \A v \in Txs, k \in Keys : tx[v] = "open" => row'[v][k] \in {"none", "pending"},
           \/ row'[u][Key(t)] \in {"live", "finished"}
           \/ u = t /\ row'[t][Key(t)] = "pending",
           OneLiveJobPerKey'
    PROVE  EInv'
<1>1. at[t] <= Len(Plan[t]) /\ tx[t] = "open" /\ t \notin refused  BY Zenon DEF Busy
<1>2. PICK k \in Keys : k = Key(t)  BY <1>1, KeyType, Zenon
<1>3. /\ given' = [given EXCEPT ![t][k] = u] /\ at' = [at EXCEPT ![t] = @ + 1]
      /\ conflicted' = [conflicted EXCEPT ![t] = FALSE]
  BY <1>2, Zenon DEF Advance
<1>4. /\ given \in [Txs -> [Keys -> Txs \union {Nobody}]] /\ conflicted \in [Txs -> BOOLEAN]
      /\ at \in [Txs -> Nat] /\ \A v \in Txs : at[v] \in 1..(Len(Plan[v]) + 1)
      /\ \A v \in Txs : Plan[v] \in Seq(Keys) /\ Len(Plan[v]) \in Nat
  BY PlanAssumption DEF EInv, TypeOK
<1>5. \A v \in Txs : at'[v] = IF v = t THEN at[t] + 1 ELSE at[v]  BY <1>3, <1>4, Zenon
<1>6. \A v \in Txs, j \in Keys :
         given'[v][j] = IF v = t /\ j = k THEN u ELSE given[v][j]
  BY <1>3, <1>4, Zenon
<1>7. \A v \in Txs : conflicted'[v] => v # t /\ conflicted[v]  BY <1>3, <1>4, Zenon
<1>8. TypeOK' /\ at' \in [Txs -> Nat]
  <2>1. given' \in [Txs -> [Keys -> Txs \union {Nobody}]]  BY <1>3, <1>4, Zenon
  <2>2. conflicted' \in [Txs -> BOOLEAN]  BY <1>3, <1>4, Zenon
  <2>3. at' \in [Txs -> Nat] /\ \A v \in Txs : at'[v] \in 1..(Len(Plan[v]) + 1)
    BY <1>1, <1>3, <1>4, <1>5
  <2>4. QED  BY <2>1, <2>2, <2>3, Zenon DEF EInv, TypeOK
<1>9. ASSUME NEW v \in Txs, tx'[v] # "rolledback", NEW i \in 1..(at'[v] - 1)
      PROVE  Stands(v, Plan[v][i])'
  <2>1. i \in 1..Len(Plan[v]) /\ (v = t => i \in 1..at[t]) /\ (v # t => i \in 1..(at[v] - 1))
    BY <1>1, <1>4, <1>5, <1>9
  <2>2. Plan[v][i] \in Keys  BY <1>4, <2>1
  <2>3. CASE v = t /\ Plan[v][i] = k
    <3>1. given'[t][k] = u  BY <1>6, Zenon
    <3>2. QED  BY <1>2, <2>3, <3>1, Zenon DEF Stands
  <2>4. CASE ~(v = t /\ Plan[v][i] = k)
    <3>1. given'[v][Plan[v][i]] = given[v][Plan[v][i]]  BY <1>6, <2>2, <2>4
    <3>2. v = t => i # at[t]  BY <1>2, <2>4, Zenon DEF Key
    <3>3. i \in 1..(at[v] - 1)  BY <1>4, <2>1, <3>2
    <3>4. Stands(v, Plan[v][i])  BY <1>9, <3>3, Zenon DEF EInv
    <3>5. QED  BY <1>9, <2>2, <3>1, <3>4, StandsKept, Zenon
  <2>5. QED  BY <2>3, <2>4, Zenon
<1>10. ASSUME NEW v \in Txs, tx'[v] = "open", conflicted'[v]
       PROVE  at'[v] <= Len(Plan[v]) /\ Promised(v, Key(v))'
  <2>1. v # t /\ conflicted[v] /\ tx[v] = "open"  BY <1>7, <1>10, Zenon
  <2>2. at[v] <= Len(Plan[v]) /\ Promised(v, Key(v)) /\ at'[v] = at[v]  BY <1>5, <2>1, Zenon DEF EInv
  <2>3. PICK j \in Keys : j = Key(v)  BY <2>2, KeyType, Zenon
  <2>4. Promised(v, j)'  BY <1>10, <2>1, <2>2, <2>3, PromisedKept, Zenon
  <2>5. Key(v)' = j  BY <2>2, <2>3, Zenon DEF Key
  <2>6. QED  BY <2>2, <2>4, <2>5, Zenon DEF Promised, Visible
<1>11. \A v \in Txs : tx'[v] = "committed" => at'[v] > Len(Plan[v])
  BY <1>1, <1>5, Zenon DEF EInv
<1>12. RefusedOnlyByAFinish'
  <2>1. \A v \in refused : v # t /\ v \in Txs  BY <1>1, Zenon DEF EInv, TypeOK
  <2>2. \A v \in refused : at'[v] = at[v]  BY <1>5, <2>1, Zenon
  <2>3. QED  BY <2>2, Zenon DEF RefusedOnlyByAFinish, Key, EInv
<1>13. \A v \in Txs, j \in Keys : tx'[v] = "open" => row'[v][j] \in {"none", "pending"}
  BY Zenon
<1>14. QED  BY <1>8, <1>9, <1>10, <1>11, <1>12, <1>13, Zenon DEF EInv

LEMMA InsertStep == ASSUME EInv, NEW t \in Txs, Insert(t) PROVE EInv'
<1>1. Busy(t) /\ tx[t] = "open" /\ at[t] <= Len(Plan[t])  BY Zenon DEF Insert, Busy
<1>2. PICK k \in Keys : k = Key(t)  BY <1>1, KeyType, Zenon
<1>3. /\ \A u \in Txs, j \in Keys : Evolves(u, j)
      /\ row' \in [Txs -> [Keys -> {"none", "pending", "live", "finished"}]]
      /\ \A u \in Txs, j \in Keys : row'[u][j] = IF u = t /\ j = k THEN "pending" ELSE row[u][j]
  BY <1>2, InsertEvolves
<1>4. \A u \in Txs \ {t} : row[u][k] \notin {"pending", "live"}
  BY <1>1, <1>2, Zenon DEF Insert, Blocked, Inserting, Taken
<1>5. OneLiveJobPerKey'  BY <1>3, <1>4 DEF OneLiveJobPerKey, EInv
<1>6. /\ \A v \in Txs, j \in Keys : row'[v][j] = "pending" => tx[v] = "open"
      /\ \A v \in Txs, j \in Keys : tx[v] = "open" => row'[v][j] \in {"none", "pending"}
  <2>1. \A v \in Txs, j \in Keys : row[v][j] = "pending" => tx[v] = "open"  BY Zenon DEF EInv, TypeOK
  <2>2. \A v \in Txs, j \in Keys : tx[v] = "open" => row[v][j] \in {"none", "pending"}  BY Zenon DEF EInv
  <2>3. ASSUME NEW v \in Txs, NEW j \in Keys
        PROVE  /\ row'[v][j] = "pending" => tx[v] = "open"
               /\ tx[v] = "open" => row'[v][j] \in {"none", "pending"}
    <3>1. row'[v][j] = row[v][j] \/ (v = t /\ row'[v][j] = "pending")  BY <1>3, Zenon
    <3>2. QED  BY <1>1, <2>1, <2>2, <3>1, Zenon
  <2>4. QED  BY <2>3, Zenon
<1>7. row'[t][Key(t)] = "pending"  BY <1>2, <1>3, Zenon
<1>8. Advance(t, t) /\ UNCHANGED <<tx, refused, finishes>>  BY Zenon DEF Insert
<1>9. QED  BY <1>1, <1>3, <1>5, <1>6, <1>7, <1>8, AdvanceKept, Zenon

LEMMA ReadLiveStep == ASSUME EInv, NEW t \in Txs, ReadLive(t) PROVE EInv'
<1>1. PICK u \in Visible(t, Key(t)) : Advance(t, u)  BY Zenon DEF ReadLive
<1>2. Busy(t) /\ UNCHANGED <<row, tx, refused, finishes>>  BY Zenon DEF ReadLive
<1>3. u \in Txs /\ (row[u][Key(t)] = "live" \/ (u = t /\ row[t][Key(t)] = "pending"))
  BY <1>1, Zenon DEF Visible
<1>4. \A v \in Txs, j \in Keys : Evolves(v, j)  BY <1>2, Zenon DEF Evolves
<1>5. OneLiveJobPerKey'  BY <1>2, Zenon DEF OneLiveJobPerKey, EInv
<1>6. /\ row' \in [Txs -> [Keys -> {"none", "pending", "live", "finished"}]]
      /\ \A v \in Txs, j \in Keys : row'[v][j] = "pending" => tx[v] = "open"
      /\ \A v \in Txs, j \in Keys : tx[v] = "open" => row'[v][j] \in {"none", "pending"}
  BY <1>2, Zenon DEF EInv, TypeOK
<1>7. row'[u][Key(t)] \in {"live", "finished"} \/ (u = t /\ row'[t][Key(t)] = "pending")
  BY <1>2, <1>3, Zenon
<1>8. QED  BY <1>1, <1>2, <1>3, <1>4, <1>5, <1>6, <1>7, AdvanceKept, Zenon

LEMMA ConflictStep == ASSUME EInv, NEW t \in Txs, Conflict(t) PROVE EInv'
<1>1. tx[t] = "open" /\ at[t] <= Len(Plan[t])  BY Zenon DEF Conflict, Busy
<1>2. PICK k \in Keys : k = Key(t)  BY <1>1, KeyType, Zenon
<1>3. UNCHANGED <<row, tx, at, given, refused>> /\ finishes' = [finishes EXCEPT ![t] = {}]
  BY Zenon DEF Conflict
<1>4. \A v \in Txs, j \in Keys : Evolves(v, j)  BY <1>3, Zenon DEF Evolves
<1>5. conflicted' = [conflicted EXCEPT ![t] = TRUE] /\ conflicted \in [Txs -> BOOLEAN]
  BY Zenon DEF Conflict, EInv, TypeOK
<1>6. \A v \in Txs : conflicted'[v] => v = t \/ conflicted[v]  BY <1>5, Zenon
<1>7. finishes \in [Txs -> SUBSET Keys]  BY Zenon DEF EInv, TypeOK
<1>8. \A v \in Txs \ {t} : finishes'[v] = finishes[v]  BY <1>3, <1>7, Zenon
<1>9. ~conflicted[t] /\ t \notin refused  BY Zenon DEF Conflict, Busy
<1>10. Promised(t, Key(t))'
  <2>1. Taken(t, Key(t))  BY Zenon DEF Conflict
  <2>2. Visible(t, Key(t)) # {}  BY <2>1, Zenon DEF Taken, Visible
  <2>3. Visible(t, Key(t))' = Visible(t, Key(t))  BY <1>3, Zenon DEF Visible, Key
  <2>4. QED  BY <2>2, <2>3, Zenon DEF Promised
<1>11. /\ \A v \in Txs : tx'[v] # "rolledback" =>
             \A i \in 1..(at'[v] - 1) : Stands(v, Plan[v][i])'
       /\ \A v \in Txs : tx'[v] = "committed" => at'[v] > Len(Plan[v])
       /\ \A v \in Txs : (tx'[v] = "open" /\ conflicted'[v]) =>
             at'[v] <= Len(Plan[v]) /\ Promised(v, Key(v))'
  BY <1>1, <1>3, <1>4, <1>6, <1>8, <1>9, <1>10, OthersKept, Zenon
<1>12. conflicted' \in [Txs -> BOOLEAN]  BY <1>5, Zenon
<1>13. finishes' \in [Txs -> SUBSET Keys]  BY <1>3, <1>7
<1>14. TypeOK' /\ at' \in [Txs -> Nat]  BY <1>3, <1>12, <1>13, Zenon DEF EInv, TypeOK
<1>15. OneLiveJobPerKey' /\ RefusedOnlyByAFinish'
  <2>1. OneLiveJobPerKey'  BY <1>3, Zenon DEF EInv, OneLiveJobPerKey
  <2>2. refused' = refused /\ refused \subseteq Txs  BY <1>3, Zenon DEF EInv, TypeOK
  <2>3. \A v \in refused : v \in Txs \ {t} /\ Key(v)' = Key(v)  BY <1>3, <1>9, <2>2, Zenon DEF Key
  <2>4. RefusedOnlyByAFinish  BY Zenon DEF EInv
  <2>5. RefusedOnlyByAFinish'  BY <1>8, <2>2, <2>3, <2>4, Zenon DEF RefusedOnlyByAFinish
  <2>6. QED  BY <2>1, <2>5, Zenon
<1>16. \A v \in Txs, j \in Keys : tx'[v] = "open" => row'[v][j] \in {"none", "pending"}
  BY <1>3, Zenon DEF EInv
<1>17. QED  BY <1>11, <1>14, <1>15, <1>16, Zenon DEF EInv

LEMMA ReadNoneStep == ASSUME EInv, NEW t \in Txs, ReadNone(t) PROVE EInv'
<1>1. tx[t] = "open" /\ conflicted[t] /\ Visible(t, Key(t)) = {}  BY Zenon DEF ReadNone, Busy
<1>2. Key(t) \in finishes[t]  BY <1>1, Zenon DEF EInv, Promised
<1>3. UNCHANGED <<row, tx, at, conflicted, given, finishes>> /\ refused' = refused \union {t}
  BY Zenon DEF ReadNone
<1>4. \A v \in Txs, j \in Keys : Evolves(v, j)  BY <1>3, Zenon DEF Evolves
<1>5. /\ \A v \in Txs : tx'[v] # "rolledback" =>
            \A i \in 1..(at'[v] - 1) : Stands(v, Plan[v][i])'
      /\ \A v \in Txs : tx'[v] = "committed" => at'[v] > Len(Plan[v])
      /\ \A v \in Txs : (tx'[v] = "open" /\ conflicted'[v]) =>
            at'[v] <= Len(Plan[v]) /\ Promised(v, Key(v))'
  BY <1>3, <1>4, OthersKept, Zenon
<1>6. RefusedOnlyByAFinish'  BY <1>2, <1>3, Zenon DEF EInv, RefusedOnlyByAFinish, Key
<1>7. TypeOK' /\ at' \in [Txs -> Nat]  BY <1>3, Zenon DEF EInv, TypeOK
<1>8. OneLiveJobPerKey'  BY <1>3, Zenon DEF EInv, OneLiveJobPerKey
<1>9. \A v \in Txs, j \in Keys : tx'[v] = "open" => row'[v][j] \in {"none", "pending"}
  BY <1>3, Zenon DEF EInv
<1>10. QED  BY <1>5, <1>6, <1>7, <1>8, <1>9, Zenon DEF EInv

LEMMA DecideStep ==
    ASSUME EInv, NEW t \in Txs, tx[t] = "open", NEW verdict, NEW rows, Decide(t, verdict, rows),
           \/ verdict = "committed" /\ rows = "live" /\ at[t] > Len(Plan[t])
           \/ verdict = "rolledback" /\ rows = "none"
    PROVE  EInv'
<1>1. <<verdict, rows>> \in {<<"committed", "live">>, <<"rolledback", "none">>}  BY Zenon
<1>2. /\ \A u \in Txs, k \in Keys : Evolves(u, k)
      /\ row' \in [Txs -> [Keys -> {"none", "pending", "live", "finished"}]]
      /\ \A u \in Txs, k \in Keys :
            row'[u][k] = IF u = t /\ row[u][k] = "pending" THEN rows ELSE row[u][k]
  BY <1>1, DecideEvolves, Zenon
<1>3. tx' = [tx EXCEPT ![t] = verdict] /\ UNCHANGED <<at, conflicted, given, refused, finishes>>
  BY Zenon DEF Decide
<1>4. tx \in [Txs -> {"open", "committed", "rolledback"}]  BY Zenon DEF EInv, TypeOK
<1>5. \A v \in Txs : tx'[v] = IF v = t THEN verdict ELSE tx[v]  BY <1>3, <1>4, Zenon
<1>6. /\ \A v \in Txs : tx'[v] # "rolledback" =>
            \A i \in 1..(at'[v] - 1) : Stands(v, Plan[v][i])'
      /\ \A v \in Txs : tx'[v] = "committed" => at'[v] > Len(Plan[v])
      /\ \A v \in Txs : (tx'[v] = "open" /\ conflicted'[v]) =>
            at'[v] <= Len(Plan[v]) /\ Promised(v, Key(v))'
  <2>1. UNCHANGED <<at, given, finishes>>  BY <1>3, Zenon
  <2>2. \A v \in Txs : \/ tx'[v] = tx[v]
                       \/ tx[v] = "open" /\ tx'[v] = "rolledback"
                       \/ tx[v] = "open" /\ tx'[v] = "committed" /\ at[v] > Len(Plan[v])
    BY <1>5, Zenon
  <2>3. \A v \in Txs : conflicted'[v] => conflicted[v]  BY <1>3, Zenon
  <2>4. QED  BY <1>2, <2>1, <2>2, <2>3, OthersKept, Zenon
<1>7. ASSUME NEW v \in Txs, NEW k \in Keys, row'[v][k] = "pending" PROVE tx'[v] = "open"
  <2>1. row'[v][k] = IF v = t /\ row[v][k] = "pending" THEN rows ELSE row[v][k]  BY <1>2, Zenon
  <2>2. v # t /\ row[v][k] = "pending"
    <3>1. rows # "pending"  BY Zenon
    <3>2. v = t => row[v][k] \in {"none", "pending"}  BY Zenon DEF EInv
    <3>3. QED  BY <1>7, <2>1, <3>1, <3>2, Zenon
  <2>3. tx[v] = "open"  BY <2>2, Zenon DEF EInv, TypeOK
  <2>4. QED  BY <1>5, <2>2, <2>3, Zenon
<1>8. \A v \in Txs, k \in Keys : tx'[v] = "open" => row'[v][k] \in {"none", "pending"}
  BY <1>2, <1>5, Zenon DEF EInv
<1>9. tx' \in [Txs -> {"open", "committed", "rolledback"}]  BY <1>3, <1>4, Zenon
<1>10. TypeOK' /\ at' \in [Txs -> Nat]  BY <1>2, <1>3, <1>7, <1>9, Zenon DEF EInv, TypeOK
<1>11. OneLiveJobPerKey'  BY <1>2 DEF EInv, OneLiveJobPerKey
<1>12. RefusedOnlyByAFinish'  BY <1>3, Zenon DEF EInv, RefusedOnlyByAFinish, Key
<1>13. QED  BY <1>6, <1>8, <1>10, <1>11, <1>12, Zenon DEF EInv

LEMMA FinishStep == ASSUME EInv, NEW t \in Txs, NEW k \in Keys, Finish(t, k) PROVE EInv'
<1>1. /\ \A u \in Txs, j \in Keys : Evolves(u, j)
      /\ row' \in [Txs -> [Keys -> {"none", "pending", "live", "finished"}]]
      /\ \A u \in Txs, j \in Keys : row'[u][j] = IF u = t /\ j = k THEN "finished" ELSE row[u][j]
  BY FinishEvolves, Zenon
<1>2. /\ UNCHANGED <<tx, at, conflicted, given, refused>>
      /\ finishes' = [u \in Txs |-> IF conflicted[u] THEN finishes[u] \union {k} ELSE finishes[u]]
      /\ row[t][k] = "live"
  BY Zenon DEF Finish
<1>3. finishes' \in [Txs -> SUBSET Keys]
  <2>1. finishes \in [Txs -> SUBSET Keys]  BY Zenon DEF EInv, TypeOK
  <2>2. QED  BY <1>2, <2>1
<1>4. \A v \in Txs : finishes[v] \subseteq finishes'[v]  BY <1>2
<1>5. /\ \A v \in Txs : tx'[v] # "rolledback" =>
            \A i \in 1..(at'[v] - 1) : Stands(v, Plan[v][i])'
      /\ \A v \in Txs : tx'[v] = "committed" => at'[v] > Len(Plan[v])
      /\ \A v \in Txs : (tx'[v] = "open" /\ conflicted'[v]) =>
            at'[v] <= Len(Plan[v]) /\ Promised(v, Key(v))'
  BY <1>1, <1>2, <1>4, OthersKept, Zenon
<1>6. tx[t] # "open"  BY <1>2, Zenon DEF EInv
<1>7. \A v \in Txs, j \in Keys : tx'[v] = "open" => row'[v][j] \in {"none", "pending"}
  BY <1>1, <1>2, <1>6, Zenon DEF EInv
<1>8. \A v \in Txs, j \in Keys : row'[v][j] = "pending" => tx'[v] = "open"
  <2>1. \A v \in Txs, j \in Keys : row[v][j] = "pending" => tx[v] = "open"  BY Zenon DEF EInv, TypeOK
  <2>2. QED  BY <1>1, <1>2, <2>1, Zenon
<1>9. TypeOK' /\ at' \in [Txs -> Nat]  BY <1>1, <1>2, <1>8, <1>3, Zenon DEF EInv, TypeOK
<1>10. OneLiveJobPerKey'  BY <1>1 DEF EInv, OneLiveJobPerKey
<1>11. RefusedOnlyByAFinish'  BY <1>2, <1>4, Zenon DEF EInv, TypeOK, RefusedOnlyByAFinish, Key
<1>12. QED  BY <1>5, <1>7, <1>9, <1>10, <1>11, Zenon DEF EInv

LEMMA Inductive == ASSUME EInv, [Next]_vars PROVE EInv'
<1>1. CASE UNCHANGED vars
  <2>1. UNCHANGED <<row, tx, at, conflicted, given, refused, finishes>>  BY <1>1, Zenon DEF vars
  <2>2. TypeOK' /\ OneLiveJobPerKey' /\ RefusedOnlyByAFinish'
    BY <2>1, Zenon DEF EInv, TypeOK, OneLiveJobPerKey, RefusedOnlyByAFinish, Key
  <2>3. \A t \in Txs : tx'[t] # "rolledback" => \A i \in 1..(at'[t] - 1) : Stands(t, Plan[t][i])'
    BY <2>1, Zenon DEF EInv, Stands, Promised, Visible
  <2>4. \A t \in Txs : (tx'[t] = "open" /\ conflicted'[t]) =>
           at'[t] <= Len(Plan[t]) /\ Promised(t, Key(t))'
    BY <2>1, Zenon DEF EInv, Promised, Visible, Key
  <2>5. QED  BY <2>1, <2>2, <2>3, <2>4, Zenon DEF EInv
<1>2. ASSUME NEW t \in Txs, Commit(t) PROVE EInv'
  BY <1>2, DecideStep, Zenon DEF Commit
<1>3. ASSUME NEW t \in Txs, Rollback(t) PROVE EInv'
  BY <1>3, DecideStep, Zenon DEF Rollback
<1>4. ASSUME NEW t \in Txs, DeadlockVictim(t) PROVE EInv'
  <2>1. tx[t] = "open"  BY <1>4, Zenon DEF DeadlockVictim, Ring, Blocked, Busy
  <2>2. QED  BY <1>4, <2>1, DecideStep, Zenon DEF DeadlockVictim
<1>5. QED
  BY <1>1, <1>2, <1>3, <1>4, InsertStep, ConflictStep, ReadLiveStep, ReadNoneStep, FinishStep, Zenon
  DEF Next, AllDone

LEMMA Initially == ASSUME Init PROVE EInv
<1>1. \A t \in Txs : Plan[t] \in Seq(Keys) /\ Len(Plan[t]) \in Nat  BY PlanAssumption
<1>2. \A t \in Txs, k \in Keys : row[t][k] = "none"  BY Zenon DEF Init
<1>3. \A t \in Txs : at[t] = 1 /\ tx[t] = "open" /\ ~conflicted[t]  BY DEF Init
<1>4. TypeOK /\ at \in [Txs -> Nat]  BY <1>1, <1>2, <1>3 DEF Init, TypeOK
<1>5. OneLiveJobPerKey  BY <1>2, Zenon DEF OneLiveJobPerKey
<1>6. RefusedOnlyByAFinish  BY DEF Init, RefusedOnlyByAFinish
<1>7. QED  BY <1>2, <1>3, <1>4, <1>5, <1>6 DEF EInv

-----------------------------------------------------------------------------
\* OneLiveJobPerKey: the partial unique index and the waits it causes keep the
\* live jobs of a key to one, in any interleaving of any transactions.
THEOREM LiveJobsAreUnique == Spec => []OneLiveJobPerKey
<1>1. EInv => OneLiveJobPerKey  BY Zenon DEF EInv
<1>2. QED  BY <1>1, Inductive, Initially, PTL DEF Spec

\* CommittedHasItsJobs: the transactional enqueue gives a committed caller a
\* committed job for every key it asked for.
THEOREM CommittedCallersHaveJobs == Spec => []CommittedHasItsJobs
<1>1. EInv => CommittedHasItsJobs
  <2> SUFFICES ASSUME EInv, NEW t \in Txs, tx[t] = "committed", NEW i \in DOMAIN Plan[t]
               PROVE  /\ given[t][Plan[t][i]] # Nobody
                      /\ row[given[t][Plan[t][i]]][Plan[t][i]] \in {"live", "finished"}
    BY Zenon DEF CommittedHasItsJobs
  <2>1. Plan[t] \in Seq(Keys) /\ i \in 1..Len(Plan[t]) /\ Plan[t][i] \in Keys
    BY PlanAssumption
  <2>2. at[t] \in Nat /\ at[t] > Len(Plan[t])  BY Zenon DEF EInv
  <2>3. i \in 1..(at[t] - 1)  BY <2>1, <2>2
  <2>4. Stands(t, Plan[t][i])  BY <2>3, Zenon DEF EInv
  <2>5. row[t][Plan[t][i]] # "pending"  BY <2>1, Zenon DEF EInv, TypeOK
  <2>6. QED  BY <2>4, <2>5, NobodyAssumption DEF Stands
<1>2. QED  BY <1>1, Inductive, Initially, PTL DEF Spec

\* RefusedOnlyByAFinish: the one way for Enqueue to find neither room for its
\* row nor the row in its place is that a job of the key finished between the
\* insert and the read.
THEOREM RefusalsHaveACause == Spec => []RefusedOnlyByAFinish
<1>1. EInv => RefusedOnlyByAFinish  BY Zenon DEF EInv
<1>2. QED  BY <1>1, Inductive, Initially, PTL DEF Spec

-----------------------------------------------------------------------------
\* Health.

\* How long a claim loop can go without progress while the process is not
\* drained and its claims return in time: a claim, or a sleep and the wait for a
\* slot after it.
Prompt(s) ==
    LET t == timer[s]  p == progress[s] IN
    /\ loop[s] \in {"off", "slot", "claim", "sleep"}
    /\ loop[s] = "off" => p = Never
    /\ loop[s] = "slot" => t <= PollInterval /\ (p = Never \/ p <= PollInterval + t)
    /\ loop[s] = "claim" => t <= ClaimTime /\ p <= t
    /\ loop[s] = "sleep" => t <= PollInterval /\ p <= t

\* What the report in progress, or the last one, has to show for its answer.
Accounted ==
    /\ report \in Report
    /\ ~draining => report.stalled \subseteq Hanging
    /\ report.phase = "ping" => {s \in Sites : dbUp[s]} \subseteq report.seenUp
    /\ report.ready => report.begun = Sites /\ Sites \ report.todo \subseteq report.seenUp
    /\ report.phase = "done" => report.todo = {}

HealthInv ==
    /\ loop \in [Sites -> {"off", "slot", "claim", "sleep", "ended"}]
    /\ timer \in [Sites -> Nat] /\ progress \in [Sites -> Nat]
    /\ dbUp \in [Sites -> BOOLEAN] /\ draining \in BOOLEAN
    /\ ~draining => \A s \in Sites \ Hanging : Prompt(s)
    /\ Accounted

\* Two poll intervals, or a claim that returns in time, fit in the stale bound.
LEMMA BoundFacts ==
    /\ HealthStaleBound \in Nat /\ Never \in Nat /\ Never = HealthStaleBound + 2
    /\ PollInterval \in Nat /\ PollInterval + PollInterval <= HealthStaleBound
    /\ ClaimTime \in Nat /\ ClaimTime <= HealthStaleBound
    /\ TimerCap \in Nat /\ PollInterval <= TimerCap /\ ClaimTime <= TimerCap
<1>1. HealthStaleBound \in Nat /\ PollInterval + PollInterval <= HealthStaleBound
  BY TimesAssumption DEF HealthStaleBound
<1>2. TimerCap \in Nat /\ PollInterval <= TimerCap /\ ClaimTime <= TimerCap
  BY TimesAssumption DEF TimerCap
<1>3. QED  BY <1>1, <1>2, TimesAssumption, ClaimAssumption DEF Never

\* A loop that is prompt is not stalled.
LEMMA PromptIsFresh ==
    ASSUME HealthInv, NEW s \in Sites, Prompt(s)
    PROVE  progress[s] = Never \/ progress[s] <= HealthStaleBound
<1>1. timer[s] \in Nat /\ progress[s] \in Nat  BY Zenon DEF HealthInv
<1>2. QED  BY <1>1, BoundFacts DEF Prompt

\* A step of the loop of one site, which the report does not look at.
LEMMA LoopMoves ==
    ASSUME HealthInv, NEW s \in Sites, UNCHANGED <<dbUp, draining, report>>,
           NEW phase \in {"off", "slot", "claim", "sleep", "ended"}, Goto(s, phase),
           Touch(s) \/ UNCHANGED progress,
           ~draining /\ s \notin Hanging => Prompt(s)'
    PROVE  HealthInv'
<1>1. /\ loop \in [Sites -> {"off", "slot", "claim", "sleep", "ended"}]
      /\ timer \in [Sites -> Nat] /\ progress \in [Sites -> Nat]
  BY Zenon DEF HealthInv
<1>2. 0 \in Nat  BY Zenon
<1>3. /\ loop' \in [Sites -> {"off", "slot", "claim", "sleep", "ended"}]
      /\ timer' \in [Sites -> Nat] /\ progress' \in [Sites -> Nat]
  BY <1>1, <1>2, Zenon DEF Goto, Touch
<1>4. ASSUME NEW z \in Sites, z # s
      PROVE  loop'[z] = loop[z] /\ timer'[z] = timer[z] /\ progress'[z] = progress[z]
  BY <1>1, <1>4, Zenon DEF Goto, Touch
<1>5. ASSUME ~draining, NEW z \in Sites \ Hanging PROVE Prompt(z)'
  <2>1. CASE z = s  BY <1>5, <2>1, Zenon
  <2>2. CASE z # s
    <3>1. Prompt(z)  BY <1>5, Zenon DEF HealthInv
    <3>2. QED  BY <1>4, <2>2, <3>1, Zenon DEF Prompt
  <2>3. QED  BY <2>1, <2>2, Zenon
<1>6. Accounted'  BY Zenon DEF HealthInv, Accounted
<1>7. QED  BY <1>3, <1>5, <1>6, Zenon DEF HealthInv

\* Every step of the loop but the end of a sleep records progress.
LEMMA LoopStepKeeps ==
    ASSUME HealthInv, NEW s \in Sites, LoopStep(s) \/ ClaimReturns(s)
    PROVE  HealthInv'
<1>1. /\ loop \in [Sites -> {"off", "slot", "claim", "sleep", "ended"}]
      /\ timer \in [Sites -> Nat] /\ progress \in [Sites -> Nat]
      /\ timer[s] \in Nat /\ progress[s] \in Nat
  BY Zenon DEF HealthInv
<1>2. ~draining /\ s \notin Hanging => Prompt(s)  BY Zenon DEF HealthInv
<1>3. ASSUME NEW phase \in {"slot", "claim", "sleep"}, Goto(s, phase), Touch(s) PROVE Prompt(s)'
  <2>1. loop'[s] = phase /\ timer'[s] = 0 /\ progress'[s] = 0  BY <1>1, <1>3, Zenon DEF Goto, Touch
  <2>2. QED  BY <1>3, <2>1, BoundFacts DEF Prompt
<1>4. CASE TakeSlot(s) \/ SlotWaitEnds(s) \/ ClaimReturns(s)
  <2>1. PICK phase \in {"slot", "claim", "sleep"} :
          Goto(s, phase) /\ Touch(s) /\ UNCHANGED <<dbUp, draining, report>>
    BY <1>4, Zenon DEF TakeSlot, SlotWaitEnds, ClaimReturns, ClaimFinds, ClaimFindsNone, ClaimFails
  <2>2. Prompt(s)'  BY <1>3, <2>1, Zenon
  <2>3. QED  BY <2>1, <2>2, LoopMoves, Zenon
<1>5. CASE Start(s) \/ SleepEnds(s)
  <2>1. /\ Goto(s, "slot") /\ UNCHANGED <<progress, dbUp, draining, report>>
        /\ loop[s] = "off" \/ (loop[s] = "sleep" /\ (timer[s] = PollInterval \/ draining))
    BY <1>5, Zenon DEF Start, SleepEnds
  <2>2. loop'[s] = "slot" /\ timer'[s] = 0 /\ progress'[s] = progress[s]
    BY <1>1, <2>1, Zenon DEF Goto
  <2>3. ASSUME ~draining, s \notin Hanging PROVE Prompt(s)'
    <3>1. progress[s] = Never \/ progress[s] <= PollInterval
      BY <1>2, <2>1, <2>3, Zenon DEF Prompt
    <3>2. progress[s] = Never \/ progress[s] <= PollInterval + 0  BY <3>1, BoundFacts
    <3>3. 0 <= PollInterval  BY BoundFacts
    <3>4. QED  BY <2>2, <3>2, <3>3, Zenon DEF Prompt
  <2>4. QED  BY <2>1, <2>3, LoopMoves, Zenon
<1>6. CASE Leave(s)
  <2>1. Goto(s, "ended") /\ draining /\ UNCHANGED <<progress, dbUp, draining, report>>
    BY <1>6, Zenon DEF Leave
  <2>2. QED  BY <2>1, LoopMoves, Zenon
<1>7. QED  BY <1>4, <1>5, <1>6, Zenon DEF LoopStep

\* Time passes no further than a timer or a claim that is due.
LEMMA TickKeeps == ASSUME HealthInv, Tick PROVE HealthInv'
<1>1. UNCHANGED <<loop, dbUp, draining, report>>  BY Zenon DEF Tick
<1>2. timer \in [Sites -> Nat] /\ progress \in [Sites -> Nat]  BY Zenon DEF HealthInv
<1>3. ASSUME NEW s \in Sites
      PROVE  /\ timer[s] \in Nat /\ progress[s] \in Nat
             /\ timer'[s] = IF timer[s] < TimerCap THEN timer[s] + 1 ELSE TimerCap
             /\ progress'[s] = IF progress[s] <= HealthStaleBound
                               THEN progress[s] + 1 ELSE progress[s]
             /\ timer'[s] \in Nat /\ progress'[s] \in Nat
  <2>1. timer[s] \in Nat /\ progress[s] \in Nat  BY <1>2, Zenon
  <2>2. /\ timer'[s] = IF timer[s] < TimerCap THEN timer[s] + 1 ELSE TimerCap
        /\ progress'[s] = IF progress[s] <= HealthStaleBound
                          THEN progress[s] + 1 ELSE progress[s]
    BY Zenon DEF Tick
  <2>3. QED  BY <2>1, <2>2, BoundFacts
<1>4. timer' \in [Sites -> Nat] /\ progress' \in [Sites -> Nat]
  BY <1>3, Zenon DEF Tick
<1>5. ASSUME ~draining, NEW s \in Sites \ Hanging PROVE Prompt(s)'
  <2>1. Prompt(s) /\ MayWait(s)  BY <1>5, Zenon DEF HealthInv, Tick
  <2>2. PICK t \in Nat, p \in Nat : t = timer[s] /\ p = progress[s]  BY <1>3, Zenon
  <2>3. PICK t1 \in Nat, p1 \in Nat :
          /\ t1 = timer'[s] /\ p1 = progress'[s]
          /\ t1 = (IF t < TimerCap THEN t + 1 ELSE TimerCap)
          /\ p1 = IF p <= HealthStaleBound THEN p + 1 ELSE p
    BY <1>3, <2>2, Zenon
  <2>4. p1 = p \/ p1 = p + 1  BY <2>3, Zenon
  <2>5. CASE loop[s] = "off"
    <3>1. p = Never  BY <2>1, <2>2, <2>5, Zenon DEF Prompt
    <3>2. p1 = Never  BY <2>3, <3>1, BoundFacts
    <3>3. QED  BY <1>1, <2>3, <2>5, <3>2, Zenon DEF Prompt
  <2>6. CASE loop[s] = "slot"
    <3>1. t < PollInterval /\ (p = Never \/ p <= PollInterval + t)
      BY <2>1, <2>2, <2>6, Zenon DEF Prompt, MayWait
    <3>2. t1 <= PollInterval /\ (p1 = Never \/ p1 <= PollInterval + t1)
      BY <2>3, <3>1, BoundFacts
    <3>3. QED  BY <1>1, <2>3, <2>6, <3>2, Zenon DEF Prompt
  <2>7. CASE loop[s] = "claim"
    <3>1. t < ClaimTime /\ p <= t
      BY <1>5, <2>1, <2>2, <2>7, Zenon DEF Prompt, MayWait
    <3>2. t1 = t + 1  BY <2>3, <3>1, BoundFacts
    <3>3. t1 <= ClaimTime /\ p1 <= t1  BY <2>4, <3>1, <3>2, BoundFacts
    <3>4. QED  BY <1>1, <2>3, <2>7, <3>3, Zenon DEF Prompt
  <2>8. CASE loop[s] = "sleep"
    <3>1. t < PollInterval /\ p <= t
      BY <2>1, <2>2, <2>8, Zenon DEF Prompt, MayWait
    <3>2. t1 = t + 1  BY <2>3, <3>1, BoundFacts
    <3>3. t1 <= PollInterval /\ p1 <= t1  BY <2>4, <3>1, <3>2, BoundFacts
    <3>4. QED  BY <1>1, <2>3, <2>8, <3>3, Zenon DEF Prompt
  <2>9. QED  BY <2>1, <2>5, <2>6, <2>7, <2>8, Zenon DEF Prompt
<1>6. Accounted'  BY <1>1, Zenon DEF HealthInv, Accounted
<1>7. QED  BY <1>1, <1>4, <1>5, <1>6, Zenon DEF HealthInv

\* A step that leaves the loops alone.
LEMMA LoopsUntouched ==
    ASSUME HealthInv, UNCHANGED <<loop, timer, progress>>, draining' \in BOOLEAN,
           draining => draining', dbUp' \in [Sites -> BOOLEAN], Accounted'
    PROVE  HealthInv'
<1>1. ASSUME ~draining', NEW s \in Sites \ Hanging PROVE Prompt(s)'
  <2>1. Prompt(s)  BY <1>1, Zenon DEF HealthInv
  <2>2. QED  BY <2>1, Zenon DEF Prompt
<1>2. QED  BY <1>1, Zenon DEF HealthInv

\* The snapshot: who is prompt is not reported stalled, and a report that
\* starts out ready found that every loop had begun.
LEMMA ReportBeginsKeeps == ASSUME HealthInv, ReportBegins PROVE HealthInv'
<1>1. UNCHANGED <<loop, timer, progress, dbUp, draining>>  BY Zenon DEF ReportBegins
<1>2. PICK ready, stalled, begun, up :
        /\ ready = (Sites # {} /\ \A s \in Sites : LoopVerdict(s) = "ok")
        /\ stalled = {s \in Sites : LoopVerdict(s) = "stalled"}
        /\ begun = {s \in Sites : progress[s] # Never}
        /\ up = {s \in Sites : dbUp[s]}
  BY Zenon
<1>3. report' = [phase |-> "ping", todo |-> Sites, ready |-> ready, stalled |-> stalled,
                 begun |-> begun, seenUp |-> up]
  <2>1. [s \in Sites |-> LoopVerdict(s)] \in [Sites -> {LoopVerdict(s) : s \in Sites}]  BY Zenon
  <2>2. \A s \in Sites : [z \in Sites |-> LoopVerdict(z)][s] = LoopVerdict(s)  BY Zenon
  <2>3. /\ ready = (Sites # {} /\ \A s \in Sites : [z \in Sites |-> LoopVerdict(z)][s] = "ok")
        /\ stalled = {s \in Sites : [z \in Sites |-> LoopVerdict(z)][s] = "stalled"}
    BY <1>2, <2>2, Zenon
  <2>4. QED  BY <1>2, <2>3, Zenon DEF ReportBegins
<1>4. /\ report'.phase = "ping" /\ report'.todo = Sites /\ report'.ready = ready
      /\ report'.stalled = stalled /\ report'.begun = begun /\ report'.seenUp = up
  BY <1>3, Zenon
<1>5. ready \in BOOLEAN /\ stalled \subseteq Sites /\ begun \subseteq Sites /\ up \subseteq Sites
  BY <1>2, Zenon
<1>6. report' \in Report  BY <1>3, <1>5, Zenon DEF Report
<1>7. ~draining => stalled \subseteq Hanging
  <2> SUFFICES ASSUME ~draining, NEW s \in Sites \ Hanging PROVE LoopVerdict(s) # "stalled"
    BY <1>2, Zenon
  <2>1. progress[s] = Never \/ progress[s] <= HealthStaleBound
    BY PromptIsFresh, Zenon DEF HealthInv
  <2>2. progress[s] \in Nat  BY Zenon DEF HealthInv
  <2>3. ~(HealthStaleBound < progress[s] /\ progress[s] < Never)  BY <2>1, <2>2, BoundFacts
  <2>4. QED  BY <2>3, Zenon DEF LoopVerdict
<1>8. ready => begun = Sites
  <2>1. \A s \in Sites : progress[s] = Never => LoopVerdict(s) # "ok"
    <3> SUFFICES ASSUME NEW s \in Sites, progress[s] = Never PROVE LoopVerdict(s) # "ok"  BY Zenon
    <3>1. ~(HealthStaleBound < progress[s] /\ progress[s] < Never)  BY BoundFacts
    <3>2. QED  BY <3>1, Zenon DEF LoopVerdict
  <2>2. QED  BY <1>2, <2>1, Zenon
<1>9. Accounted'  BY <1>1, <1>2, <1>4, <1>6, <1>7, <1>8, Zenon DEF Accounted
<1>10. QED  BY <1>1, <1>9, LoopsUntouched, Zenon DEF HealthInv

\* A site that answers the ping is up, and was seen so.
LEMMA PingSiteKeeps == ASSUME HealthInv, NEW s \in Sites, PingSite(s) PROVE HealthInv'
<1>1. /\ UNCHANGED <<loop, timer, progress, dbUp, draining>>
      /\ report.phase = "ping" /\ s \in report.todo /\ Accounted /\ report \in Report
  BY Zenon DEF PingSite, HealthInv, Accounted
<1>2. PICK todo, ready, phase :
        /\ todo = report.todo \ {s} /\ ready = (report.ready /\ dbUp[s])
        /\ phase = IF report.todo = {s} THEN "done" ELSE "ping"
  BY Zenon
<1>3. report' = [report EXCEPT !.todo = todo, !.ready = ready, !.phase = phase]
  BY <1>2, Zenon DEF PingSite
<1>4. /\ todo \subseteq Sites /\ ready \in BOOLEAN /\ phase \in {"ping", "done"}
      /\ phase = "done" => todo = {}
  BY <1>1, <1>2, Zenon DEF Report
<1>5. /\ report' \in Report
      /\ report'.phase = phase /\ report'.todo = todo /\ report'.ready = ready
      /\ report'.stalled = report.stalled /\ report'.begun = report.begun
      /\ report'.seenUp = report.seenUp
  BY <1>1, <1>3, <1>4, Zenon DEF Report
<1>6. ready => report.begun = Sites /\ Sites \ todo \subseteq report.seenUp
  BY <1>1, <1>2, Zenon DEF Accounted
<1>7. Accounted'  BY <1>1, <1>4, <1>5, <1>6, Zenon DEF Accounted
<1>8. QED  BY <1>1, <1>7, LoopsUntouched, Zenon DEF HealthInv

\* A database that comes up under a report was up in its time.
LEMMA DatabaseKeeps == ASSUME HealthInv, NEW s \in Sites, Database(s) PROVE HealthInv'
<1>1. /\ UNCHANGED <<loop, timer, progress, draining>> /\ Accounted /\ report \in Report
      /\ dbUp \in [Sites -> BOOLEAN] /\ dbUp' = [dbUp EXCEPT ![s] = ~dbUp[s]]
  BY Zenon DEF Database, HealthInv, Accounted
<1>2. /\ dbUp' \in [Sites -> BOOLEAN] /\ dbUp'[s] = ~dbUp[s]
      /\ \A z \in Sites : z # s => dbUp'[z] = dbUp[z]
  BY <1>1, Zenon
<1>3. CASE report.phase = "ping" /\ ~dbUp[s]
  <2>1. PICK up : up = report.seenUp \union {s}  BY Zenon
  <2>2. report' = [report EXCEPT !.seenUp = up]  BY <1>3, <2>1, Zenon DEF Database
  <2>3. up \subseteq Sites  BY <1>1, <2>1, Zenon DEF Report
  <2>4. /\ report' \in Report
        /\ report'.phase = report.phase /\ report'.todo = report.todo
        /\ report'.ready = report.ready /\ report'.stalled = report.stalled
        /\ report'.begun = report.begun /\ report'.seenUp = up
    BY <1>1, <2>2, <2>3, Zenon DEF Report
  <2>5. {z \in Sites : dbUp'[z]} \subseteq up  BY <1>1, <1>2, <1>3, <2>1, Zenon DEF Accounted
  <2>6. Accounted'  BY <1>1, <2>1, <2>4, <2>5, Zenon DEF Accounted
  <2>7. QED  BY <1>1, <1>2, <2>6, LoopsUntouched, Zenon DEF HealthInv
<1>4. CASE ~(report.phase = "ping" /\ ~dbUp[s])
  <2>1. report' = report  BY <1>4, Zenon DEF Database
  <2>2. report.phase = "ping" => {z \in Sites : dbUp'[z]} \subseteq report.seenUp
    BY <1>1, <1>2, <1>4, Zenon DEF Accounted
  <2>3. Accounted'  BY <1>1, <2>1, <2>2, Zenon DEF Accounted
  <2>4. QED  BY <1>1, <1>2, <2>3, LoopsUntouched, Zenon DEF HealthInv
<1>5. QED  BY <1>3, <1>4, Zenon

LEMMA HealthInvStarts == HealthInit => HealthInv
<1> SUFFICES ASSUME HealthInit PROVE HealthInv  BY Zenon
<1>1. /\ loop = [s \in Sites |-> "off"] /\ timer = [s \in Sites |-> 0]
      /\ progress = [s \in Sites |-> Never] /\ dbUp \in [Sites -> BOOLEAN] /\ draining = FALSE
  BY Zenon DEF HealthInit
<1>2. /\ report \in Report /\ report.phase = "none" /\ report.stalled = {} /\ ~report.ready
  BY Zenon DEF HealthInit, Report
<1>3. timer \in [Sites -> Nat] /\ progress \in [Sites -> Nat]  BY <1>1, BoundFacts, Zenon
<1>4. \A s \in Sites : Prompt(s)  BY <1>1, Zenon DEF Prompt
<1>5. Accounted  BY <1>2, Zenon DEF Accounted
<1>6. QED  BY <1>1, <1>3, <1>4, <1>5, Zenon DEF HealthInv

LEMMA HealthInvKept == HealthInv /\ [HealthNext]_healthVars => HealthInv'
<1> SUFFICES ASSUME HealthInv, [HealthNext]_healthVars PROVE HealthInv'  BY Zenon
<1>1. CASE UNCHANGED <<loop, timer, progress, dbUp, report>> /\ draining' \in BOOLEAN
           /\ (draining => draining')
  <2>1. Accounted'  BY <1>1, Zenon DEF HealthInv, Accounted
  <2>2. QED  BY <1>1, <2>1, LoopsUntouched, Zenon DEF HealthInv
<1>2. CASE Tick  BY <1>2, TickKeeps, Zenon
<1>3. CASE Drain  BY <1>1, <1>3, Zenon DEF Drain
<1>4. CASE ReportBegins  BY <1>4, ReportBeginsKeeps, Zenon
<1>5. ASSUME NEW s \in Sites, LoopStep(s) \/ ClaimReturns(s) PROVE HealthInv'
  BY <1>5, LoopStepKeeps, Zenon
<1>6. ASSUME NEW s \in Sites, JobEnds(s) PROVE HealthInv'
  BY <1>1, <1>6, Zenon DEF JobEnds, HealthInv
<1>7. ASSUME NEW s \in Sites, PingSite(s) PROVE HealthInv'  BY <1>7, PingSiteKeeps, Zenon
<1>8. ASSUME NEW s \in Sites, Database(s) PROVE HealthInv'  BY <1>8, DatabaseKeeps, Zenon
<1>9. CASE UNCHANGED healthVars  BY <1>1, <1>9, Zenon DEF healthVars, HealthInv
<1>10. QED
  BY <1>2, <1>3, <1>4, <1>5, <1>6, <1>7, <1>8, <1>9, Zenon DEF HealthNext

\* Whatever the number of sites and slots, the poll interval and the databases
\* that hang beside it, claimLoop records progress often enough that Report
\* never calls a prompt loop stalled, and a report that ends ready saw every
\* loop begun and every database up since it began.
THEOREM HealthReportIsHonest == HealthSpec => []ReportIsHonest
<1>1. HealthInv => ReportIsHonest  BY Zenon DEF HealthInv, Accounted, ReportIsHonest, Report
<1>2. QED  BY <1>1, HealthInvStarts, HealthInvKept, PTL DEF HealthSpec
=============================================================================
