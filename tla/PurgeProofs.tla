------------------------------ MODULE PurgeProofs -----------------------------
(***************************************************************************)
(* The report of a purge is exact, for any number of customers, of         *)
(* concurrent purges, workers and retries.  ReportIsExact rests on what    *)
(* the shared index has passed (NoneTwiceNoneSkipped), and both on what a  *)
(* purge looks like in each of its stages (StageOK).  The invariant is    *)
(* stated for one purge at a time (RowOK), so that a step of one purge     *)
(* needs no argument about the others.                                     *)
(***************************************************************************)
EXTENDS Purge, TLAPS

\* The items that a team of workers has in hand.
Held(team) == {team[w].item : w \in {v \in Workers : team[v].at = "calling"}}

\* No customer found twice, none found that is still to be examined.
FoundOK(row) ==
  /\ \A m, n \in DOMAIN row.found : row.found[m] = row.found[n] => m = n
  /\ \A n \in DOMAIN row.found : row.found[n] \notin row.unseen

TeamOK(row, team) ==
  /\ \A w \in Workers : team[w].at = "calling" =>
       /\ team[w].item \in DOMAIN row.found
       /\ team[w].item <= row.index
       /\ row.at \in {"write", "dead"}
  /\ \A w, v \in Workers :
       team[w].at = "calling" /\ team[v].at = "calling" /\ team[w].item = team[v].item => w = v

CountsOK(row, team) ==
  /\ \A n \in DOMAIN row.found :
       row.deleted[row.found[n]] + row.errors[row.found[n]] =
         IF n <= row.index /\ n \notin Held(team) THEN 1 ELSE 0
  /\ \A c \in Customers :
       row.deleted[c] + row.errors[c] > 0 => \E n \in DOMAIN row.found : row.found[n] = c

StageOK(row, team) ==
  /\ row.at \in {"idle", "search", "failed"} => row.index = 0
  /\ row.at = "idle" => row.mode = "dry" /\ row.found = <<>>
  /\ row.at = "write" => row.mode = "live"
  /\ row.at = "write" /\ team[1].at = "done" => row.index > Len(row.found)
  /\ row.at = "returned" /\ row.mode = "live" => row.index >= Len(row.found)

\* What a purge deleted, by the graves.
GravesOK(p, row, graves) ==
  /\ \A c \in Customers : row.deleted[c] > 0 => graves[c].base = p
  /\ \A c \in Customers : graves[c].base = p =>
       row.mode = "live" /\ \E n \in DOMAIN row.found : row.found[n] = c

RowOK(p, row, team, graves) ==
  /\ FoundOK(row) /\ TeamOK(row, team) /\ CountsOK(row, team) /\ StageOK(row, team)
  /\ GravesOK(p, row, graves)

PurgeInv ==
  /\ PurgeTypeOK
  /\ \A c \in Customers : tomb[c] # Alive => tomb[c].scope = c
  /\ \A p \in Purges : RowOK(p, purge[p], worker[p], tomb)

----------------------------------------------------------------------------
\* The initial state.
LEMMA InitPurgeInv ==
  ASSUME Init PROVE PurgeInv
<1> USE PurgeAssumption
<1>1. PurgeTypeOK
  BY DEF Init, PurgeTypeOK, Keys, Alive, NewPurge, None, PurgeRows, Stages, Off, WorkerRows
<1>2. ASSUME NEW p \in Purges PROVE RowOK(p, purge[p], worker[p], tomb)
  BY DEF Init, Alive, NewPurge, None, Off, Workers, RowOK, FoundOK, TeamOK, CountsOK, StageOK,
     GravesOK, Held
<1>3. QED BY <1>1, <1>2 DEF PurgeInv, Init

\* A step of one purge leaves the others alone, whatever it deletes.
LEMMA OneSteps ==
  ASSUME PurgeInv, NEW p \in Purges, NEW row \in PurgeRows, NEW team \in [Workers -> WorkerRows],
         purge' = [purge EXCEPT ![p] = row], worker' = [worker EXCEPT ![p] = team],
         expired' = expired,
         \/ tomb' = tomb
         \/ \E c \in Customers :
              ~Gone(c) /\ tomb' = [tomb EXCEPT ![c] = [base |-> p, scope |-> c]],
         RowOK(p, row, team, tomb')
  PROVE  PurgeInv'
<1> USE PurgeAssumption DEF PurgeInv
<1>1. PurgeTypeOK'
  <2>1. tomb' \in [Customers -> Keys]
    BY DEF PurgeTypeOK, Keys
  <2>2. purge' \in [Purges -> PurgeRows] /\ worker' \in [Purges -> [Workers -> WorkerRows]]
    BY DEF PurgeTypeOK
  <2>3. QED BY <2>1, <2>2 DEF PurgeTypeOK
<1>2. \A c \in Customers : tomb'[c] # Alive => tomb'[c].scope = c
  BY DEF PurgeTypeOK
<1>3. ASSUME NEW q \in Purges PROVE RowOK(q, purge'[q], worker'[q], tomb')
  <2>1. CASE q = p
    BY <2>1 DEF PurgeTypeOK
  <2>2. CASE q # p
    <3>1. purge'[q] = purge[q] /\ worker'[q] = worker[q]
      BY <2>2 DEF PurgeTypeOK
    <3>2. \A c \in Customers : tomb'[c].base = q <=> tomb[c].base = q
      BY <2>2 DEF PurgeTypeOK, Gone, Alive
    <3>3. QED BY <3>1, <3>2 DEF RowOK, GravesOK
  <2>3. QED BY <2>1, <2>2
<1>4. QED BY <1>1, <1>2, <1>3

\* The world.
LEMMA WorldPreserves ==
  ASSUME PurgeInv, World PROVE PurgeInv'
<1> USE PurgeAssumption DEF PurgeInv
<1>1. ASSUME NEW c \in Customers, Expire(c) PROVE PurgeInv'
  <2>1. ASSUME NEW p \in Purges
        PROVE  /\ purge'[p] = [purge[p] EXCEPT !.unseen = @ \ {c}]
               /\ purge'[p] \in PurgeRows
    <3> DEFINE unseen == purge[p].unseen \ {c}
    <3>1. purge'[p] = [purge[p] EXCEPT !.unseen = unseen]
      BY <1>1 DEF Expire
    <3>2. purge[p] \in PurgeRows /\ unseen \in SUBSET Customers
      BY DEF PurgeTypeOK, PurgeRows
    <3>3. unseen = purge[p].unseen \ {c}
      OBVIOUS
    <3> HIDE DEF unseen
    <3>4. [purge[p] EXCEPT !.unseen = unseen] \in PurgeRows
      BY <3>2 DEF PurgeRows
    <3>5. QED BY <3>1, <3>3, <3>4
  <2>2. PurgeTypeOK'
    BY <1>1, <2>1 DEF Expire, PurgeTypeOK
  <2>3. ASSUME NEW p \in Purges PROVE RowOK(p, purge'[p], worker'[p], tomb')
    <3>1. worker'[p] = worker[p] /\ tomb' = tomb
      BY <1>1 DEF Expire
    <3> DEFINE row == [purge[p] EXCEPT !.unseen = @ \ {c}]
    <3>2. /\ row.at = purge[p].at /\ row.mode = purge[p].mode /\ row.found = purge[p].found
          /\ row.index = purge[p].index /\ row.deleted = purge[p].deleted
          /\ row.errors = purge[p].errors /\ row.unseen = purge[p].unseen \ {c}
      BY DEF PurgeTypeOK, PurgeRows
    <3>8. row = purge'[p]
      BY <2>1
    <3> HIDE DEF row
    <3>3. RowOK(p, purge[p], worker[p], tomb)
      OBVIOUS
    <3>4. FoundOK(row)
      BY <3>2, <3>3 DEF RowOK, FoundOK
    <3>5. TeamOK(row, worker[p]) /\ CountsOK(row, worker[p])
      BY <3>2, <3>3 DEF RowOK, TeamOK, CountsOK
    <3>6. StageOK(row, worker[p]) /\ GravesOK(p, row, tomb)
      BY <3>2, <3>3 DEF RowOK, StageOK, GravesOK
    <3>7. QED BY <3>1, <3>8, <3>4, <3>5, <3>6 DEF RowOK
  <2>4. QED BY <1>1, <2>2, <2>3 DEF Expire
<1>2. ASSUME NEW c \in Customers, Spare(c) PROVE PurgeInv'
  BY <1>2 DEF Spare, PurgeTypeOK
<1>3. ASSUME NEW c \in Customers, DeleteElsewhere(c) PROVE PurgeInv'
  <2>1. PurgeTypeOK'
    BY <1>3 DEF DeleteElsewhere, PurgeTypeOK, Keys
  <2>2. \A d \in Customers : tomb'[d] # Alive => tomb'[d].scope = d
    BY <1>3 DEF DeleteElsewhere, PurgeTypeOK
  <2>3. ASSUME NEW p \in Purges PROVE RowOK(p, purge'[p], worker'[p], tomb')
    <3>1. \A d \in Customers : tomb'[d].base = p <=> tomb[d].base = p
      BY <1>3 DEF DeleteElsewhere, PurgeTypeOK, Gone, Alive
    <3>2. QED BY <1>3, <3>1 DEF DeleteElsewhere, RowOK, GravesOK
  <2>4. QED BY <2>1, <2>2, <2>3
<1>4. QED BY <1>1, <1>2, <1>3 DEF World

----------------------------------------------------------------------------
\* A purge that only goes to another stage keeps its report and its graves.
LEMMA StageSteps ==
  ASSUME PurgeInv, NEW p \in Purges, NEW at \in Stages, NEW team \in [Workers -> WorkerRows],
         purge' = [purge EXCEPT ![p] = [purge[p] EXCEPT !.at = at]],
         worker' = [worker EXCEPT ![p] = team], UNCHANGED <<expired, tomb>>,
         Held(team) = Held(worker[p]),
         TeamOK([purge[p] EXCEPT !.at = at], team), StageOK([purge[p] EXCEPT !.at = at], team)
  PROVE  PurgeInv'
<1> DEFINE old == purge[p]
           row == [old EXCEPT !.at = at]
<1>1. old \in PurgeRows /\ RowOK(p, old, worker[p], tomb)
  BY DEF PurgeInv, PurgeTypeOK
<1>2. /\ row \in PurgeRows /\ row.mode = old.mode /\ row.unseen = old.unseen
      /\ row.found = old.found /\ row.index = old.index
      /\ row.deleted = old.deleted /\ row.errors = old.errors
  BY <1>1 DEF PurgeRows
<1>3. TeamOK(row, team) /\ StageOK(row, team) /\ purge' = [purge EXCEPT ![p] = row]
  OBVIOUS
<1> HIDE DEF row, old
<1>4. FoundOK(row)
  BY <1>1, <1>2 DEF RowOK, FoundOK
<1>5. CountsOK(row, team)
  BY <1>1, <1>2 DEF RowOK, CountsOK
<1>6. GravesOK(p, row, tomb)
  BY <1>1, <1>2 DEF RowOK, GravesOK
<1>7. RowOK(p, row, team, tomb')
  BY <1>3, <1>4, <1>5, <1>6 DEF RowOK
<1>8. QED BY <1>2, <1>3, <1>7, OneSteps

\* Before the first request nothing is in hand and nothing reported.
LEMMA Untouched ==
  ASSUME PurgeInv, NEW p \in Purges, purge[p].at \in {"idle", "search"}
  PROVE  /\ \A w \in Workers : worker[p][w].at # "calling"
         /\ Held(worker[p]) = {} /\ purge[p].index = 0
         /\ \A c \in Customers : purge[p].deleted[c] = 0 /\ purge[p].errors[c] = 0
<1>1. purge[p] \in PurgeRows /\ RowOK(p, purge[p], worker[p], tomb)
  BY DEF PurgeInv, PurgeTypeOK
<1>2. (\A w \in Workers : worker[p][w].at # "calling") /\ purge[p].index = 0
  BY <1>1 DEF RowOK, TeamOK, StageOK
<1>3. Held(worker[p]) = {}
  BY <1>2 DEF Held
<1>4. ASSUME NEW c \in Customers PROVE purge[p].deleted[c] = 0 /\ purge[p].errors[c] = 0
  <2>1. purge[p].deleted[c] \in Nat /\ purge[p].errors[c] \in Nat
    BY <1>1 DEF PurgeRows
  <2>2. ASSUME purge[p].deleted[c] + purge[p].errors[c] > 0 PROVE FALSE
    <3>1. PICK n \in DOMAIN purge[p].found : purge[p].found[n] = c
      BY <1>1, <2>2 DEF RowOK, CountsOK
    <3>2. n \in Nat \ {0}
      BY <1>1, <3>1 DEF PurgeRows
    <3>3. QED BY <1>1, <1>2, <2>2, <3>1, <3>2 DEF RowOK, CountsOK
  <2>3. QED BY <2>1, <2>2
<1>5. QED BY <1>2, <1>3, <1>4

\* A purge that starts has found and reported nothing.
LEMMA StartPreserves ==
  ASSUME PurgeInv, NEW p \in Purges, Start(p) PROVE PurgeInv'
<1>1. PICK mode \in {"dry", "live"} :
        purge' = [purge EXCEPT ![p] = NewPurge("search", mode, Customers)]
  BY DEF Start, Become
<1> DEFINE row == NewPurge("search", mode, Customers)
<1>2. /\ row \in PurgeRows /\ row.at = "search" /\ row.mode = mode /\ row.unseen = Customers
      /\ row.found = <<>> /\ row.index = 0
      /\ row.deleted = [c \in Customers |-> 0] /\ row.errors = [c \in Customers |-> 0]
  BY DEF NewPurge, None, PurgeRows, Stages
<1>3. purge' = [purge EXCEPT ![p] = row]
  BY <1>1
<1> HIDE DEF row
<1>4. /\ worker[p] \in [Workers -> WorkerRows] /\ worker' = [worker EXCEPT ![p] = worker[p]]
      /\ tomb' = tomb /\ expired' = expired /\ RowOK(p, purge[p], worker[p], tomb)
  BY DEF Start, PurgeInv, PurgeTypeOK
<1>5. \A w \in Workers : worker[p][w].at # "calling"
  BY Untouched DEF Start
<1>6. \A c \in Customers : tomb[c].base # p
  BY <1>4 DEF Start, RowOK, GravesOK, StageOK
<1>7. RowOK(p, row, worker[p], tomb')
  BY <1>2, <1>4, <1>5, <1>6 DEF RowOK, FoundOK, TeamOK, CountsOK, StageOK, GravesOK
<1>8. QED BY <1>2, <1>3, <1>4, <1>7, OneSteps

\* What Append adds.
LEMMA Appended ==
  ASSUME NEW S, NEW seq \in Seq(S), NEW e \in S
  PROVE  /\ Append(seq, e) \in Seq(S)
         /\ \A n \in DOMAIN seq : n \in DOMAIN Append(seq, e) /\ Append(seq, e)[n] = seq[n]
         /\ \A n \in DOMAIN Append(seq, e) :
              n \in DOMAIN seq \/ (n = Len(seq) + 1 /\ Append(seq, e)[n] = e)
OBVIOUS

\* The search looks at one customer more.
LEMMA ExaminePreserves ==
  ASSUME PurgeInv, NEW p \in Purges, NEW c \in Customers, Examine(p, c) PROVE PurgeInv'
<1> DEFINE old == purge[p]
           found == IF c \in expired /\ ~Gone(c) THEN Append(old.found, c) ELSE old.found
           row == [old EXCEPT !.unseen = old.unseen \ {c}, !.found = found]
<1>1. /\ old \in PurgeRows /\ RowOK(p, old, worker[p], tomb) /\ old.at = "search"
      /\ c \in old.unseen /\ purge' = [purge EXCEPT ![p] = row]
      /\ worker[p] \in [Workers -> WorkerRows] /\ worker' = [worker EXCEPT ![p] = worker[p]]
      /\ tomb' = tomb /\ expired' = expired
  BY DEF Examine, Become, PurgeInv, PurgeTypeOK
<1>2. /\ old.found \in Seq(Customers) /\ old.deleted \in [Customers -> Nat]
      /\ old.errors \in [Customers -> Nat]
  BY <1>1 DEF PurgeRows
<1>3. found = old.found \/ found = Append(old.found, c)
  OBVIOUS
<1> HIDE DEF found
<1>4. found \in Seq(Customers)
  <2>1. Append(old.found, c) \in Seq(Customers)
    BY <1>2, Appended
  <2>2. QED BY <1>2, <1>3, <2>1
<1>5. /\ row \in PurgeRows /\ row.at = "search" /\ row.mode = old.mode
      /\ row.unseen = old.unseen \ {c} /\ row.found = found /\ row.index = old.index
      /\ row.deleted = old.deleted /\ row.errors = old.errors
  BY <1>1, <1>4 DEF PurgeRows
<1> HIDE DEF row, old
<1>6. /\ \A n \in DOMAIN old.found : n \in DOMAIN found /\ found[n] = old.found[n]
      /\ \A n \in DOMAIN found : n \in Nat \ {0} /\ found[n] \in Customers
      /\ \A n \in DOMAIN found : n \in DOMAIN old.found \/ (n = Len(old.found) + 1 /\ found[n] = c)
  <2>1. \A n \in DOMAIN old.found : n \in DOMAIN found /\ found[n] = old.found[n]
    <3>1. \A n \in DOMAIN old.found : n \in DOMAIN Append(old.found, c)
                                     /\ Append(old.found, c)[n] = old.found[n]
      BY <1>2, Appended
    <3>2. QED BY <1>3, <3>1
  <2>2. \A n \in DOMAIN found : n \in DOMAIN old.found \/ (n = Len(old.found) + 1 /\ found[n] = c)
    <3>1. \A n \in DOMAIN Append(old.found, c) :
            n \in DOMAIN old.found \/ (n = Len(old.found) + 1 /\ Append(old.found, c)[n] = c)
      BY <1>2, Appended
    <3>2. QED BY <1>3, <3>1
  <2>3. \A n \in DOMAIN found : n \in Nat \ {0} /\ found[n] \in Customers
    BY <1>4
  <2>4. QED BY <2>1, <2>2, <2>3
<1>7. /\ \A w \in Workers : worker[p][w].at # "calling"
      /\ Held(worker[p]) = {} /\ old.index = 0
      /\ \A d \in Customers : old.deleted[d] = 0 /\ old.errors[d] = 0
  BY <1>1, Untouched DEF old
<1>8. FoundOK(row)
  BY <1>1, <1>5, <1>6 DEF RowOK, FoundOK
<1>9. TeamOK(row, worker[p]) /\ StageOK(row, worker[p])
  BY <1>5, <1>7 DEF TeamOK, StageOK
<1>10. CountsOK(row, worker[p])
  BY <1>5, <1>6, <1>7 DEF CountsOK
<1>11. GravesOK(p, row, tomb')
  BY <1>1, <1>5, <1>6 DEF RowOK, GravesOK
<1>12. RowOK(p, row, worker[p], tomb')
  BY <1>8, <1>9, <1>10, <1>11 DEF RowOK
<1>13. QED BY <1>1, <1>5, <1>12, OneSteps

\* The search fails, or hands its list to the workers.
LEMMA SearchEndPreserves ==
  ASSUME PurgeInv, NEW p \in Purges, SearchFails(p) \/ SearchDone(p) PROVE PurgeInv'
<1> DEFINE old == purge[p]
<1>1. /\ old \in PurgeRows /\ RowOK(p, old, worker[p], tomb) /\ old.at = "search"
      /\ worker[p] \in [Workers -> WorkerRows] /\ UNCHANGED <<expired, tomb>>
  BY DEF SearchFails, SearchDone, PurgeInv, PurgeTypeOK
<1>2. /\ \A w \in Workers : worker[p][w].at # "calling"
      /\ Held(worker[p]) = {} /\ old.index = 0
  BY <1>1, Untouched
<1>3. CASE SearchFails(p)
  <2> DEFINE row == [old EXCEPT !.at = "failed"]
  <2>1. row.at = "failed" /\ row.index = 0 /\ row.found = old.found
    BY <1>1, <1>2 DEF PurgeRows
  <2>2. TeamOK(row, worker[p]) /\ StageOK(row, worker[p])
    BY <2>1, <1>2 DEF TeamOK, StageOK
  <2>3. /\ purge' = [purge EXCEPT ![p] = row] /\ worker' = [worker EXCEPT ![p] = worker[p]]
        /\ "failed" \in Stages
    BY <1>3 DEF SearchFails, Become, PurgeInv, PurgeTypeOK, Stages
  <2>4. QED BY <1>1, <2>2, <2>3, StageSteps
<1>4. CASE SearchDone(p)
  <2> DEFINE write == old.mode = "live" /\ old.found # <<>>
             at == IF write THEN "write" ELSE "returned"
             team == [w \in Workers |-> IF write /\ w <= Len(old.found) THEN Ready ELSE Off]
             row == [old EXCEPT !.at = at]
  <2>1. purge' = [purge EXCEPT ![p] = row] /\ worker' = [worker EXCEPT ![p] = team]
    BY <1>4 DEF SearchDone, Become
  <2>2. team \in [Workers -> WorkerRows] /\ \A w \in Workers : team[w].at # "calling"
    BY PurgeAssumption DEF WorkerRows, Ready, Off
  <2>3. Held(team) = Held(worker[p])
    BY <1>2, <2>2 DEF Held
  <2>4. at \in Stages /\ (at = "write" <=> write) /\ at \in {"write", "returned"}
    BY DEF Stages
  <2>5. row.at = at /\ row.index = 0 /\ row.found = old.found /\ row.mode = old.mode
    BY <1>1, <1>2 DEF PurgeRows
  <2>6. TeamOK(row, team)
    BY <2>2 DEF TeamOK
  <2>7. StageOK(row, team)
    <3>1. old.found \in Seq(Customers) /\ 1 \in Workers
      BY <1>1, PurgeAssumption DEF PurgeRows, Workers
    <3>2. write => team[1].at # "done"
      BY <3>1 DEF Ready
    <3>3. old.found = <<>> => Len(old.found) = 0
      OBVIOUS
    <3> HIDE DEF row, team
    <3>4. QED BY <2>4, <2>5, <3>2, <3>3 DEF StageOK
  <2> HIDE DEF team, at
  <2>8. QED BY <1>1, <2>1, <2>2, <2>3, <2>4, <2>6, <2>7, StageSteps
<1>5. QED BY <1>3, <1>4

\* A purge returns its report, or dies with its server.
LEMMA EndPreserves ==
  ASSUME PurgeInv, NEW p \in Purges, Return(p) \/ Crash(p) PROVE PurgeInv'
<1> DEFINE old == purge[p]
<1>1. /\ old \in PurgeRows /\ RowOK(p, old, worker[p], tomb)
      /\ worker[p] \in [Workers -> WorkerRows] /\ UNCHANGED <<expired, tomb>>
      /\ worker' = [worker EXCEPT ![p] = worker[p]]
  BY DEF Return, Crash, PurgeInv, PurgeTypeOK
<1>2. CASE Return(p)
  <2> DEFINE row == [old EXCEPT !.at = "returned"]
  <2>1. /\ row.at = "returned" /\ row.found = old.found /\ row.index = old.index
        /\ row.found \in Seq(Customers) /\ row.index \in Nat
    BY <1>1 DEF PurgeRows
  <2>2. 1 \in Workers /\ \A w \in Workers : worker[p][w].at = "done"
    BY <1>2, PurgeAssumption DEF Return, Workers
  <2>3. old.index > Len(old.found)
    BY <1>1, <1>2, <2>2 DEF Return, RowOK, StageOK
  <2>4. TeamOK(row, worker[p])
    BY <2>2 DEF TeamOK
  <2>5. StageOK(row, worker[p])
    BY <2>1, <2>3 DEF StageOK
  <2>6. purge' = [purge EXCEPT ![p] = row] /\ "returned" \in Stages
    BY <1>2 DEF Return, Become, Stages
  <2>7. QED BY <1>1, <2>4, <2>5, <2>6, StageSteps
<1>3. CASE Crash(p)
  <2> DEFINE row == [old EXCEPT !.at = "dead"]
  <2>1. row.at = "dead" /\ row.found = old.found /\ row.index = old.index
    BY <1>1 DEF PurgeRows
  <2>2. TeamOK(row, worker[p]) /\ StageOK(row, worker[p])
    BY <1>1, <2>1 DEF RowOK, TeamOK, StageOK
  <2>3. purge' = [purge EXCEPT ![p] = row] /\ "dead" \in Stages
    BY <1>3 DEF Crash, Become, Stages
  <2>4. QED BY <1>1, <2>2, <2>3, StageSteps
<1>4. QED BY <1>2, <1>3

----------------------------------------------------------------------------
\* A worker takes the item that the index points at, or leaves.
LEMMA TakePreserves ==
  ASSUME PurgeInv, NEW p \in Purges, NEW w \in Workers, Take(p, w) PROVE PurgeInv'
<1> DEFINE old == purge[p]
           next == old.index + 1
           row == [old EXCEPT !.index = next]
           hand == IF next <= Len(old.found)
                   THEN [at |-> "calling", item |-> next, tries |-> 0] ELSE Off
           team == [worker[p] EXCEPT ![w] = hand]
<1>1. /\ old \in PurgeRows /\ RowOK(p, old, worker[p], tomb) /\ old.at = "write"
      /\ worker[p] \in [Workers -> WorkerRows] /\ worker[p][w].at = "next"
      /\ purge' = [purge EXCEPT ![p] = row] /\ worker' = [worker EXCEPT ![p] = team]
      /\ tomb' = tomb /\ expired' = expired
  BY DEF Take, Become, Turn, PurgeInv, PurgeTypeOK
<1>2. old.index \in Nat /\ old.found \in Seq(Customers)
  BY <1>1 DEF PurgeRows
<1>3. /\ row \in PurgeRows /\ row.at = old.at /\ row.mode = old.mode /\ row.unseen = old.unseen
      /\ row.found = old.found /\ row.index = next
      /\ row.deleted = old.deleted /\ row.errors = old.errors
  <2> HIDE DEF old
  <2>1. next \in Nat
    BY <1>2
  <2> HIDE DEF next
  <2>2. QED BY <1>1, <2>1 DEF PurgeRows
<1>4. hand \in WorkerRows /\ hand.at \in {"calling", "done"}
      /\ (hand.at = "calling" => hand.item = next /\ next <= Len(old.found))
      /\ (hand.at = "done" => next > Len(old.found))
  <2>1. [at |-> "calling", item |-> next, tries |-> 0] \in WorkerRows /\ Off \in WorkerRows
    BY <1>2, PurgeAssumption DEF WorkerRows, Off
  <2>2. QED BY <1>2, <2>1 DEF Off
<1> HIDE DEF hand
<1>5. /\ team \in [Workers -> WorkerRows] /\ team[w] = hand
      /\ \A v \in Workers : v # w => team[v] = worker[p][v]
  BY <1>1, <1>4
<1> HIDE DEF row, hand, team, old
<1>6. Held(team) = Held(worker[p]) \cup (IF hand.at = "calling" THEN {next} ELSE {})
  BY <1>1, <1>4, <1>5 DEF Held
<1>7. next \notin Held(worker[p])
  BY <1>1, <1>2 DEF Held, RowOK, TeamOK
<1>8. FoundOK(row)
  BY <1>1, <1>3 DEF RowOK, FoundOK
<1>9. TeamOK(row, team)
  <2>1. ASSUME NEW v \in Workers, team[v].at = "calling"
        PROVE  /\ team[v].item \in DOMAIN row.found /\ team[v].item <= row.index
               /\ v # w => team[v].item <= old.index
    <3>1. CASE v = w
      BY <1>2, <1>3, <1>4, <1>5, <2>1, <3>1
    <3>2. CASE v # w
      BY <1>1, <1>2, <1>3, <1>5, <2>1, <3>2 DEF RowOK, TeamOK
    <3>3. QED BY <3>1, <3>2
  <2>2. ASSUME NEW u \in Workers, NEW v \in Workers, team[u].at = "calling",
               team[v].at = "calling", team[u].item = team[v].item
        PROVE  u = v
    <3>1. CASE u # w /\ v # w
      BY <1>1, <1>5, <2>2, <3>1 DEF RowOK, TeamOK
    <3>2. CASE u = w /\ v # w
      BY <1>2, <1>4, <1>5, <2>1, <2>2, <3>2
    <3>3. CASE u # w /\ v = w
      BY <1>2, <1>4, <1>5, <2>1, <2>2, <3>3
    <3>4. QED BY <3>1, <3>2, <3>3
  <2>3. QED BY <1>1, <1>3, <2>1, <2>2 DEF TeamOK
<1>10. CountsOK(row, team)
  <2>1. ASSUME NEW n \in DOMAIN row.found
        PROVE  (n <= next /\ n \notin Held(team)) <=> (n <= old.index /\ n \notin Held(worker[p]))
    <3>1. n \in Nat /\ n <= Len(old.found)
      BY <1>2, <1>3
    <3>2. CASE hand.at = "calling"
      BY <1>2, <1>6, <1>7, <3>1, <3>2
    <3>3. CASE hand.at = "done"
      BY <1>2, <1>4, <1>6, <3>1, <3>3
    <3>4. QED BY <1>4, <3>2, <3>3
  <2>2. QED BY <1>1, <1>3, <2>1 DEF RowOK, CountsOK
<1>11. StageOK(row, team)
  <2>1. row.at = "write" /\ team[1].at = "done" => row.index > Len(row.found)
    <3>1. CASE w = 1
      BY <1>3, <1>4, <1>5, <3>1
    <3>2. CASE w # 1
      <4>1. 1 \in Workers
        BY PurgeAssumption DEF Workers
      <4>2. team[1] = worker[p][1]
        BY <1>5, <3>2, <4>1
      <4>3. Len(old.found) \in Nat
        BY <1>2
      <4>4. QED BY <1>1, <1>2, <1>3, <4>2, <4>3 DEF RowOK, StageOK
    <3>3. QED BY <3>1, <3>2
  <2>2. QED BY <1>1, <1>3, <2>1 DEF RowOK, StageOK
<1>12. GravesOK(p, row, tomb')
  BY <1>1, <1>3 DEF RowOK, GravesOK
<1>13. RowOK(p, row, team, tomb')
  BY <1>8, <1>9, <1>10, <1>11, <1>12 DEF RowOK
<1>14. QED BY <1>1, <1>3, <1>5, <1>13, OneSteps

----------------------------------------------------------------------------
\* A request: its answer goes into the report and the item out of hand, unless
\* the client repeats it.
LEMMA StripeProperties ==
  ASSUME PurgeInv, NEW p \in Purges, NEW c \in Customers, NEW answer,
         StripeDeletes(c, DeriveKey(p, c), answer)
  PROVE  /\ \/ tomb' = tomb
            \/ ~Gone(c) /\ tomb' = [tomb EXCEPT ![c] = [base |-> p, scope |-> c]]
         /\ answer = "ok" => tomb'[c].base = p
         /\ \A d \in Customers : tomb[d].base = p => tomb'[d].base = p
         /\ \A d \in Customers : tomb'[d].base = p => tomb[d].base = p \/ d = c
<1> DEFINE key == [base |-> p, scope |-> c]
<1>1. DeriveKey(p, c) = key /\ tomb \in [Customers -> Keys]
  BY DEF DeriveKey, PurgeInv, PurgeTypeOK
<1>2. CASE ~Gone(c) /\ answer \in {"ok", "lost"} /\ tomb' = [tomb EXCEPT ![c] = key]
  BY <1>1, <1>2
<1>3. CASE key \in Range(tomb) /\ answer \in {"ok", "lost"} /\ UNCHANGED tomb
  <2>1. PICK d \in Customers : tomb[d] = key
    BY <1>1, <1>3 DEF Range
  <2>2. tomb[d] # Alive /\ tomb[d].scope = c
    BY <2>1, PurgeAssumption DEF Alive
  <2>3. d = c
    BY <2>2 DEF PurgeInv
  <2>4. QED BY <1>3, <2>1, <2>3
<1>4. CASE answer \in {"error", "lost"} /\ UNCHANGED tomb
  BY <1>4
<1>5. QED BY <1>1, <1>2, <1>3, <1>4 DEF StripeDeletes

\* One more is counted for one customer and for no other.
LEMMA OneMoreProperties ==
  ASSUME NEW list \in [Customers -> Nat], NEW c \in Customers
  PROVE  /\ OneMore(list, c) \in [Customers -> Nat]
         /\ OneMore(list, c)[c] = list[c] + 1
         /\ \A d \in Customers : d # c => OneMore(list, c)[d] = list[d]
BY DEF OneMore

\* A worker deletes its customer and takes the next.
LEMMA RequestPreserves ==
  ASSUME PurgeInv, NEW p \in Purges, NEW w \in Workers, NEW answer \in {"ok", "error", "lost"},
         Request(p, w, answer)
  PROVE  PurgeInv'
<1> DEFINE old == purge[p]
           call == worker[p][w]
           c == old.found[call.item]
<1>1. /\ old \in PurgeRows /\ RowOK(p, old, worker[p], tomb) /\ old.at = "write"
      /\ worker[p] \in [Workers -> WorkerRows] /\ call.at = "calling" /\ expired' = expired
      /\ StripeDeletes(c, DeriveKey(p, c), answer)
  BY DEF Request, PurgeInv, PurgeTypeOK
<1>2. /\ old.index \in Nat /\ old.found \in Seq(Customers)
      /\ old.deleted \in [Customers -> Nat] /\ old.errors \in [Customers -> Nat]
  BY <1>1 DEF PurgeRows
<1>3. /\ call.item \in DOMAIN old.found /\ call.item <= old.index /\ old.mode = "live"
      /\ c \in Customers /\ call.item \in Held(worker[p]) /\ c = old.found[call.item]
  <2>1. call.item \in DOMAIN old.found /\ call.item <= old.index /\ old.mode = "live"
    BY <1>1 DEF RowOK, TeamOK, StageOK
  <2>2. c \in Customers
    BY <1>2, <2>1
  <2>3. call.item \in Held(worker[p])
    BY <1>1 DEF Held
  <2>4. QED BY <2>1, <2>2, <2>3
<1>4. /\ \/ tomb' = tomb
         \/ ~Gone(c) /\ tomb' = [tomb EXCEPT ![c] = [base |-> p, scope |-> c]]
      /\ answer = "ok" => tomb'[c].base = p
      /\ \A d \in Customers : tomb[d].base = p => tomb'[d].base = p
      /\ \A d \in Customers : tomb'[d].base = p => tomb[d].base = p \/ d = c
  BY <1>1, <1>3, StripeProperties
<1>5. ASSUME Again(call, answer) PROVE PurgeInv'
  <2> DEFINE hand == [call EXCEPT !.tries = call.tries + 1]
             team == [worker[p] EXCEPT ![w] = hand]
  <2>1. /\ purge' = [purge EXCEPT ![p] = old] /\ worker' = [worker EXCEPT ![p] = team]
    BY <1>5 DEF Request, Turn, PurgeInv, PurgeTypeOK
  <2>2. call \in WorkerRows
    BY <1>1
  <2>3. hand \in WorkerRows /\ hand.at = "calling" /\ hand.item = call.item
    BY <1>1, <1>5, <2>2, PurgeAssumption DEF WorkerRows, Again
  <2> HIDE DEF hand
  <2>4. /\ team \in [Workers -> WorkerRows]
        /\ \A v \in Workers : team[v].at = worker[p][v].at /\
             (team[v].at = "calling" => team[v].item = worker[p][v].item)
    BY <1>1, <2>3
  <2> HIDE DEF team
  <2>5. Held(team) = Held(worker[p])
    BY <2>4 DEF Held
  <2>6. FoundOK(old) /\ TeamOK(old, team) /\ CountsOK(old, team)
    <3>1. TeamOK(old, worker[p]) /\ CountsOK(old, worker[p])
      BY <1>1 DEF RowOK
    <3> HIDE DEF old
    <3>2. TeamOK(old, team)
      BY <2>4, <3>1 DEF TeamOK
    <3>3. CountsOK(old, team)
      BY <2>5, <3>1 DEF CountsOK
    <3>4. QED BY <1>1, <3>2, <3>3 DEF RowOK
  <2>7. StageOK(old, team)
    <3>1. 1 \in Workers
      BY PurgeAssumption DEF Workers
    <3>2. QED BY <1>1, <2>4, <3>1 DEF RowOK, StageOK
  <2>8. GravesOK(p, old, tomb')
    BY <1>1, <1>3, <1>4 DEF RowOK, GravesOK
  <2>9. RowOK(p, old, team, tomb')
    BY <2>6, <2>7, <2>8 DEF RowOK
  <2>10. QED BY <1>1, <1>3, <1>4, <2>1, <2>4, <2>9, OneSteps
<1>6. ASSUME ~Again(call, answer) PROVE PurgeInv'
  <2> DEFINE team == [worker[p] EXCEPT ![w] = Ready]
             deleted == IF answer = "ok" THEN OneMore(old.deleted, c) ELSE old.deleted
             errors == IF answer = "ok" THEN old.errors ELSE OneMore(old.errors, c)
             row == IF answer = "ok" THEN [old EXCEPT !.deleted = deleted]
                    ELSE [old EXCEPT !.errors = errors]
  <2>1. /\ purge' = [purge EXCEPT ![p] = row] /\ worker' = [worker EXCEPT ![p] = team]
    <3>1. purge' = [purge EXCEPT ![p] =
            IF answer = "ok" THEN [old EXCEPT !.deleted = OneMore(old.deleted, c)]
            ELSE [old EXCEPT !.errors = OneMore(old.errors, c)]]
      BY <1>6 DEF Request, Become
    <3>2. CASE answer = "ok"
      BY <1>6, <3>1, <3>2 DEF Request, Turn
    <3>3. CASE answer # "ok"
      BY <1>6, <3>1, <3>3 DEF Request, Turn
    <3>4. QED BY <3>2, <3>3
  <2>2. /\ deleted \in [Customers -> Nat] /\ errors \in [Customers -> Nat]
        /\ deleted[c] + errors[c] = old.deleted[c] + old.errors[c] + 1
        /\ \A d \in Customers : d # c => deleted[d] = old.deleted[d] /\ errors[d] = old.errors[d]
        /\ answer # "ok" => deleted = old.deleted
    <3> HIDE DEF old, c
    <3> DEFINE moreDeleted == OneMore(old.deleted, c)
               moreErrors == OneMore(old.errors, c)
    <3>1. /\ moreDeleted \in [Customers -> Nat] /\ moreErrors \in [Customers -> Nat]
          /\ moreDeleted[c] = old.deleted[c] + 1 /\ moreErrors[c] = old.errors[c] + 1
          /\ \A d \in Customers : d # c => moreDeleted[d] = old.deleted[d]
                                           /\ moreErrors[d] = old.errors[d]
      <4>1. /\ old.deleted \in [Customers -> Nat] /\ old.errors \in [Customers -> Nat]
            /\ c \in Customers
        BY <1>2, <1>3
      <4>2. /\ moreDeleted \in [Customers -> Nat] /\ moreDeleted[c] = old.deleted[c] + 1
            /\ \A d \in Customers : d # c => moreDeleted[d] = old.deleted[d]
        BY <4>1, OneMoreProperties
      <4>3. /\ moreErrors \in [Customers -> Nat] /\ moreErrors[c] = old.errors[c] + 1
            /\ \A d \in Customers : d # c => moreErrors[d] = old.errors[d]
        BY <4>1, OneMoreProperties
      <4> HIDE DEF moreDeleted, moreErrors
      <4>4. QED BY <4>2, <4>3
    <3>2. old.deleted[c] \in Nat /\ old.errors[c] \in Nat
      BY <1>2, <1>3
    <3>3. CASE answer = "ok"
      <4>1. deleted = moreDeleted /\ errors = old.errors
        BY <3>3
      <4> HIDE DEF moreDeleted, moreErrors, deleted, errors
      <4>2. deleted[c] + errors[c] = old.deleted[c] + old.errors[c] + 1
        BY <3>1, <3>2, <4>1
      <4>3. deleted \in [Customers -> Nat] /\ errors \in [Customers -> Nat]
        BY <1>2, <3>1, <4>1
      <4>4. \A d \in Customers : d # c => deleted[d] = old.deleted[d] /\ errors[d] = old.errors[d]
        BY <3>1, <4>1
      <4>5. QED BY <3>3, <4>2, <4>3, <4>4
    <3>4. CASE answer # "ok"
      <4>1. deleted = old.deleted /\ errors = moreErrors
        BY <3>4
      <4> HIDE DEF moreDeleted, moreErrors, deleted, errors
      <4>2. QED BY <1>2, <3>1, <3>2, <3>4, <4>1
    <3>5. QED BY <3>3, <3>4
  <2>3. answer = "ok" => errors = old.errors
    OBVIOUS
  <2> HIDE DEF deleted, errors
  <2>4. /\ row \in PurgeRows /\ row.at = old.at /\ row.mode = old.mode
        /\ row.unseen = old.unseen /\ row.found = old.found /\ row.index = old.index
        /\ row.deleted = deleted /\ row.errors = errors
    BY <1>1, <2>2, <2>3 DEF PurgeRows
  <2>5. /\ team \in [Workers -> WorkerRows] /\ team[w].at = "next"
        /\ \A v \in Workers : v # w => team[v] = worker[p][v]
    BY <1>1, PurgeAssumption DEF Ready, WorkerRows
  <2> HIDE DEF row, team, old, c
  <2>6. Held(team) = Held(worker[p]) \ {call.item}
    BY <1>1, <2>5 DEF Held, RowOK, TeamOK
  <2>7. FoundOK(row) /\ TeamOK(row, team)
    BY <1>1, <2>4, <2>5 DEF RowOK, FoundOK, TeamOK
  <2>8. CountsOK(row, team)
    <3>1. ASSUME NEW n \in DOMAIN row.found
          PROVE  row.deleted[row.found[n]] + row.errors[row.found[n]] =
                   IF n <= row.index /\ n \notin Held(team) THEN 1 ELSE 0
      <4>1. CASE n = call.item
        <5>1. old.deleted[c] + old.errors[c] = 0
          BY <1>1, <1>3 DEF RowOK, CountsOK
        <5>2. n <= row.index /\ n \notin Held(team) /\ row.found[n] = c
          BY <1>3, <2>4, <2>6, <4>1
        <5>3. old.deleted[c] \in Nat /\ old.errors[c] \in Nat
          BY <1>2, <1>3
        <5>4. QED BY <2>2, <2>4, <5>1, <5>2, <5>3
      <4>2. CASE n # call.item
        <5>1. row.found[n] # c /\ row.found[n] \in Customers
          BY <1>1, <1>2, <1>3, <2>4, <4>2 DEF RowOK, FoundOK
        <5>2. n \in Held(team) <=> n \in Held(worker[p])
          BY <2>6, <4>2
        <5>3. QED BY <1>1, <2>2, <2>4, <5>1, <5>2 DEF RowOK, CountsOK
      <4>3. QED BY <4>1, <4>2
    <3>2. ASSUME NEW d \in Customers, row.deleted[d] + row.errors[d] > 0
          PROVE  \E n \in DOMAIN row.found : row.found[n] = d
      <4>1. CASE d = c
        BY <1>3, <2>4, <4>1
      <4>2. CASE d # c
        BY <1>1, <2>2, <2>4, <3>2, <4>2 DEF RowOK, CountsOK
      <4>3. QED BY <4>1, <4>2
    <3>3. QED BY <3>1, <3>2 DEF CountsOK
  <2>9. StageOK(row, team)
    <3>1. 1 \in Workers
      BY PurgeAssumption DEF Workers
    <3>2. team[1].at = "done" => worker[p][1].at = "done"
      BY <2>5, <3>1
    <3>3. QED BY <1>1, <2>4, <3>2 DEF RowOK, StageOK
  <2>10. GravesOK(p, row, tomb')
    <3>1. ASSUME NEW d \in Customers, row.deleted[d] > 0 PROVE tomb'[d].base = p
      <4>1. CASE old.deleted[d] > 0
        BY <1>1, <1>4, <4>1 DEF RowOK, GravesOK
      <4>2. CASE ~(old.deleted[d] > 0)
        BY <1>4, <2>2, <2>4, <3>1, <4>2
      <4>3. QED BY <4>1, <4>2
    <3>2. ASSUME NEW d \in Customers, tomb'[d].base = p
          PROVE  row.mode = "live" /\ \E n \in DOMAIN row.found : row.found[n] = d
      <4>1. CASE d = c
        <5>1. row.mode = "live"
          BY <1>1, <1>3, <2>4 DEF RowOK, StageOK
        <5>2. QED BY <1>3, <2>4, <4>1, <5>1
      <4>2. CASE d # c
        <5>1. tomb[d].base = p
          BY <1>4, <3>2, <4>2
        <5>2. old.mode = "live" /\ \E n \in DOMAIN old.found : old.found[n] = d
          BY <1>1, <5>1 DEF RowOK, GravesOK
        <5>3. QED BY <2>4, <5>2
      <4>3. QED BY <4>1, <4>2
    <3>3. QED BY <3>1, <3>2 DEF GravesOK
  <2>11. RowOK(p, row, team, tomb')
    BY <2>7, <2>8, <2>9, <2>10 DEF RowOK
  <2>12. QED BY <1>1, <1>3, <1>4, <2>1, <2>4, <2>5, <2>11, OneSteps
<1>7. QED BY <1>5, <1>6

----------------------------------------------------------------------------
\* All steps together.
LEMMA NextPreserves ==
  ASSUME PurgeInv, [Next]_vars PROVE PurgeInv'
<1>1. CASE World
  BY <1>1, WorldPreserves
<1>2. ASSUME NEW p \in Purges, Start(p) \/ SearchStep(p) \/ Return(p) \/ Crash(p)
      PROVE  PurgeInv'
  BY <1>2, StartPreserves, ExaminePreserves, SearchEndPreserves, EndPreserves DEF SearchStep
<1>3. ASSUME NEW p \in Purges, NEW w \in Workers, WorkerStep(p, w) PROVE PurgeInv'
  BY <1>3, TakePreserves, RequestPreserves DEF WorkerStep
<1>4. CASE UNCHANGED vars
  BY <1>4 DEF vars, PurgeInv, PurgeTypeOK, RowOK
<1>5. QED BY <1>1, <1>2, <1>3, <1>4 DEF Next

\* What the invariant says in the words of the module.
LEMMA PurgeInvMeans ==
  ASSUME PurgeInv PROVE PurgeTypeOK /\ NoneTwiceNoneSkipped /\ ReportIsExact
<1>1. PurgeTypeOK
  BY DEF PurgeInv
<1>2. ASSUME NEW p \in Purges
      PROVE  /\ RowOK(p, purge[p], worker[p], tomb) /\ InHand(p) = Held(worker[p])
             /\ purge[p] \in PurgeRows
  BY DEF PurgeInv, PurgeTypeOK, InHand, Held, Calling
<1>3. NoneTwiceNoneSkipped
  BY <1>2 DEF NoneTwiceNoneSkipped, RowOK, TeamOK, CountsOK, Calling, Reported
<1>4. ASSUME NEW p \in Purges, NEW c \in Customers
      PROVE  /\ purge[p].deleted[c] > 0 => RemovedBy(p, c)
             /\ RemovedBy(p, c) => purge[p].mode = "live" /\ c \in Range(purge[p].found)
             /\ Reported(p, c) > 0 => c \in Range(purge[p].found)
  BY <1>2 DEF RowOK, GravesOK, CountsOK, RemovedBy, Reported, Range
<1>5. ASSUME NEW p \in Purges, NEW c \in Range(purge[p].found),
             purge[p].at = "returned", purge[p].mode = "live"
      PROVE  Reported(p, c) = 1
  <2>1. PICK n \in DOMAIN purge[p].found : purge[p].found[n] = c
    BY DEF Range
  <2>2. n \in Nat /\ n <= Len(purge[p].found) /\ purge[p].index \in Nat
    BY <1>2, <2>1 DEF PurgeRows
  <2>3. n <= purge[p].index
    <3>1. purge[p].index >= Len(purge[p].found) /\ Len(purge[p].found) \in Nat
      BY <1>2, <1>5 DEF RowOK, StageOK, PurgeRows
    <3>2. QED BY <2>2, <3>1
  <2>4. n \notin Held(worker[p])
    BY <1>2, <1>5 DEF RowOK, TeamOK, Held
  <2>5. QED BY <1>2, <2>1, <2>3, <2>4 DEF RowOK, CountsOK, Reported
<1>6. ReportIsExact
  BY <1>4, <1>5 DEF ReportIsExact
<1>7. QED BY <1>1, <1>3, <1>6

\* The invariant holds in every reachable state.
LEMMA PurgeInvHolds == Spec => []PurgeInv
<1>1. Init => PurgeInv
  BY InitPurgeInv
<1>2. PurgeInv /\ [Next]_vars => PurgeInv'
  BY NextPreserves
<1>3. QED BY <1>1, <1>2, PTL DEF Spec

\* The customers, requests and reports of every purge are what the module says.
THEOREM PurgeTypeCorrect == Spec => []PurgeTypeOK
<1>1. PurgeInv => PurgeTypeOK
  BY PurgeInvMeans
<1>2. QED BY <1>1, PurgeInvHolds, PTL

\* The shared index hands every customer to one worker, however many there are
\* and however their requests end (forEachStripeWrite).
THEOREM IndexHandsOutOnce == Spec => []NoneTwiceNoneSkipped
<1>1. PurgeInv => NoneTwiceNoneSkipped
  BY PurgeInvMeans
<1>2. QED BY <1>1, PurgeInvHolds, PTL

\* The report of every purge is exact, whatever other purges, other calls, lost
\* answers and crashes do (purgeExpiredCustomers).
THEOREM ReportsAreExact == Spec => []ReportIsExact
<1>1. PurgeInv => ReportIsExact
  BY PurgeInvMeans
<1>2. QED BY <1>1, PurgeInvHolds, PTL
=============================================================================
