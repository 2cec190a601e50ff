------------------------ MODULE ChallengeTableProofs ------------------------
(***************************************************************************)
(* What one SQL statement on the challenges table does to any of its rows. *)
(* The proofs about PushLogin and CodeFactors open a row only here.        *)
(***************************************************************************)
EXTENDS ChallengeTable, TLAPS

\* A row whose one-time claim was taken, or that is deleted: nothing makes
\* it claimable again.
Spent(c) == db[c].st # "absent" /\ ~Claimable(c)

\* What no statement of the program does to an existing row.
RowKept(c) ==
    db[c].st # "absent" =>
        /\ db'[c].st # "absent"
        /\ db'[c].purpose = db[c].purpose
        /\ db'[c].channel = db[c].channel
        /\ Spent(c) => Spent(c)'

-----------------------------------------------------------------------------
(* The table.                                                              *)

\* The janitor and the INSERT write rows, and touch none that exists but to
\* delete it.
LEMMA CreateKeeps ==
    ASSUME ChallengeTypeOK, NEW c \in Challenge, NEW p \in Purpose, NEW h \in Channel,
           NEW s \in PushState, NEW k \in Code \cup {NoCode}, NEW n \in Nat, NEW ttl \in Nat,
           ChallengeCreate(c, p, h, s, k, n, ttl)
    PROVE  /\ db' \in [Challenge -> Row]
           /\ \A d \in Challenge : RowKept(d)
           /\ db[c].st = "absent" /\ db'[c].st = "live" /\ ~db'[c].used
           /\ db'[c].purpose = p /\ db'[c].channel = h /\ db'[c].push = s
           /\ \A d \in Challenge \ {c} :
                /\ db'[d].push = db[d].push /\ db'[d].purpose = db[d].purpose
                /\ db'[d].st # "absent" => db[d].st # "absent"
  <1> DEFINE row == [st |-> "live", purpose |-> p, channel |-> h, push |-> s,
                     code |-> k, left |-> n, used |-> FALSE,
                     expires |-> now + ttl, created |-> now]
  <1>1. row \in Row
    BY DEF Row, ChallengeTypeOK
  <1>2. Janitor \in [Challenge -> Row]
    BY DEF Janitor, Row, ChallengeTypeOK, Live
  <1>3. db' = [Janitor EXCEPT ![c] = row] /\ db[c].st = "absent"
    BY DEF ChallengeCreate, Fresh
  <1>4. db' \in [Challenge -> Row] /\ db'[c] = row
    BY <1>1, <1>2, <1>3
  <1>5. \A d \in Challenge \ {c} :
          db'[d] = db[d] \/ (db[d].st = "live" /\ db'[d] = [db[d] EXCEPT !.st = "deleted"])
    BY <1>2, <1>3 DEF Janitor, Live
  <1>6. \A d \in Challenge \ {c} :
          /\ RowKept(d)
          /\ db'[d].push = db[d].push /\ db'[d].purpose = db[d].purpose
          /\ db'[d].st # "absent" => db[d].st # "absent"
    <2> TAKE d \in Challenge \ {c}
    <2>1. CASE db'[d] = db[d]
      BY <2>1 DEF RowKept, Spent, Claimable, Live
    <2>2. CASE db[d].st = "live" /\ db'[d] = [db[d] EXCEPT !.st = "deleted"]
      <3>1. db[d] \in Row
        BY DEF ChallengeTypeOK
      <3> DEFINE q == [db[d] EXCEPT !.st = "deleted"]
      <3>2. /\ q.st = "deleted" /\ q.purpose = db[d].purpose
            /\ q.channel = db[d].channel /\ q.push = db[d].push
        BY <3>1 DEF Row
      <3>3. db'[d] = q
        BY <2>2
      <3> HIDE DEF q
      <3> QED BY <2>2, <3>2, <3>3 DEF RowKept, Spent, Claimable, Live
    <2> QED BY <1>5, <2>1, <2>2
  <1>7. RowKept(c)
    BY <1>3 DEF RowKept
  <1> QED BY <1>3, <1>4, <1>6, <1>7

\* Each UPDATE and the DELETE writes one row, and keeps what RowKept says.
LEMMA UpdateKeeps ==
    ASSUME ChallengeTypeOK, NEW c \in Challenge, NEW s \in PushState,
           db' \in {db, MarkUsed(c), DecrAttempt(c), SetPush(c, s), DeleteRow(c)}
    PROVE  /\ db' \in [Challenge -> Row]
           /\ \A d \in Challenge :
                /\ RowKept(d)
                /\ db'[d].purpose = db[d].purpose
                /\ db'[d].st # "absent" => db[d].st # "absent"
  <1>1. db \in [Challenge -> Row] /\ AttemptsAfter(c) \in Nat
    BY DEF AttemptsAfter, ChallengeTypeOK, Row
  <1>2. CASE db' = db
    BY <1>1, <1>2 DEF RowKept, Spent, Claimable, Live
  <1>3. ASSUME NEW q \in Row, db' = [db EXCEPT ![c] = q],
               q.purpose = db[c].purpose, q.channel = db[c].channel,
               q.st = db[c].st \/ (db[c].st # "absent" /\ q.st = "deleted"),
               db[c].used => q.used
        PROVE  /\ db' \in [Challenge -> Row]
               /\ \A d \in Challenge :
                    /\ RowKept(d)
                    /\ db'[d].purpose = db[d].purpose
                    /\ db'[d].st # "absent" => db[d].st # "absent"
    <2>1. db' \in [Challenge -> Row] /\ db'[c] = q
      BY <1>1, <1>3
    <2>2. \A d \in Challenge \ {c} : db'[d] = db[d]
      BY <1>1, <1>3
    <2>3. RowKept(c)
      BY <1>3, <2>1 DEF RowKept, Spent, Claimable, Live
    <2>4. \A d \in Challenge \ {c} : RowKept(d)
      BY <2>2 DEF RowKept, Spent, Claimable, Live
    <2> QED BY <1>3, <2>1, <2>2, <2>3, <2>4
  <1>4. CASE db' = MarkUsed(c) /\ Claimable(c)
    <2> DEFINE q == [db[c] EXCEPT !.used = TRUE]
    <2>1. /\ q \in Row /\ q.purpose = db[c].purpose /\ q.channel = db[c].channel
          /\ q.st = db[c].st /\ q.used
      BY <1>1 DEF Row
    <2>2. db' = [db EXCEPT ![c] = q]
      BY <1>4 DEF MarkUsed
    <2> HIDE DEF q
    <2> QED BY <1>3, <2>1, <2>2
  <1>5. CASE db' = DecrAttempt(c)
    <2> DEFINE n == IF Live(c) THEN AttemptsAfter(c) ELSE db[c].left
               q == [db[c] EXCEPT !.left = n]
    <2>1. n \in Nat
      BY <1>1 DEF Row
    <2>2. db' = [db EXCEPT ![c] = q]
      BY <1>1, <1>5 DEF DecrAttempt
    <2> HIDE DEF n
    <2>3. /\ q \in Row /\ q.purpose = db[c].purpose /\ q.channel = db[c].channel
          /\ q.st = db[c].st /\ q.used = db[c].used
      BY <1>1, <2>1 DEF Row
    <2> HIDE DEF q
    <2> QED BY <1>3, <2>2, <2>3
  <1>6. CASE db' = SetPush(c, s)
    <2> DEFINE n == IF Live(c) THEN s ELSE db[c].push
               q == [db[c] EXCEPT !.push = n]
    <2>1. n \in PushState
      BY <1>1 DEF Row
    <2>2. db' = [db EXCEPT ![c] = q]
      BY <1>1, <1>6 DEF SetPush
    <2> HIDE DEF n
    <2>3. /\ q \in Row /\ q.purpose = db[c].purpose /\ q.channel = db[c].channel
          /\ q.st = db[c].st /\ q.used = db[c].used
      BY <1>1, <2>1 DEF Row
    <2> HIDE DEF q
    <2> QED BY <1>3, <2>2, <2>3
  <1>7. CASE db' = DeleteRow(c)
    <2> DEFINE n == IF Live(c) THEN "deleted" ELSE db[c].st
               q == [db[c] EXCEPT !.st = n]
    <2>1. n \in {"absent", "live", "deleted"} /\ (n = db[c].st \/ (db[c].st # "absent" /\ n = "deleted"))
      BY <1>1 DEF Row, Live
    <2>2. db' = [db EXCEPT ![c] = q]
      BY <1>1, <1>7 DEF DeleteRow
    <2> HIDE DEF n
    <2>3. /\ q \in Row /\ q.purpose = db[c].purpose /\ q.channel = db[c].channel
          /\ q.st = n /\ q.used = db[c].used
      BY <1>1, <2>1 DEF Row
    <2> HIDE DEF q
    <2> QED BY <1>3, <2>1, <2>2, <2>3
  <1> QED BY <1>2, <1>4, <1>5, <1>6, <1>7 DEF MarkUsed

\* None of them but SetPush writes the state of a push.
LEMMA PushKept ==
    ASSUME ChallengeTypeOK, NEW c \in Challenge,
           db' \in {db, MarkUsed(c), DecrAttempt(c), DeleteRow(c)}
    PROVE  \A d \in Challenge : db'[d].push = db[d].push
  BY DEF MarkUsed, DecrAttempt, DeleteRow, ChallengeTypeOK, Row

=============================================================================
