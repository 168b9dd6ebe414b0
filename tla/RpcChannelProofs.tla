-------------------------- MODULE RpcChannelProofs --------------------------
(***************************************************************************)
(* Proofs about RpcChannel for any set of calls: ids tell the calls apart, *)
(* so a response finds its own call; and a call is in outstandings_, with  *)
(* the loop, or done, and never in two of these places.                    *)
(***************************************************************************)
EXTENDS RpcChannel, FiniteSetTheorems, TLAPS

Request == [id : Nat, call : Calls]
Reply == [id : Nat, answer : Answers, call : Calls]
Result == [call : Calls, answer : Answers, of : Calls]

Types ==
  /\ pc \in [Calls -> {"idle", "numbered", "registered", "returned"}]
  /\ id_ \in Nat /\ id \in [Calls -> Nat]
  /\ toServer \in Seq(Request) /\ toClient \in Seq(Reply) /\ services \subseteq Request
  /\ taken \in Result \cup {None} /\ ran \in Seq(Result)

\* Every call has an id of its own from the moment it is numbered.
Ids ==
  /\ \A c \in Calls : id[c] <= id_ /\ (id[c] = 0 <=> pc[c] = "idle")
  /\ \A c, d \in Calls : id[c] = id[d] /\ id[c] # 0 => c = d

\* A message has the id of the call it is about.
SentBy(m, at, ids) == m.call \in Calls /\ m.id = ids[m.call] /\ at[m.call] = "returned"

Messages ==
  /\ \A k \in 1..Len(toServer) : SentBy(toServer[k], pc, id)
  /\ \A m \in services : SentBy(m, pc, id) /\ Asks[m.call] = "response"
  /\ \A k \in 1..Len(toClient) :
       SentBy(toClient[k], pc, id) /\ toClient[k].answer = Asks[toClient[k].call]

\* outstandings_ has calls under their own ids, and only after they were registered.
Table ==
  /\ \A i \in DOMAIN outstandings_ : outstandings_[i] \in Calls /\ id[outstandings_[i]] = i
  /\ \A c \in Calls : pc[c] \in {"idle", "numbered"} => id[c] \notin DOMAIN outstandings_

Own(r) == r.of = r.call /\ r.answer = Asks[r.call]

Results == (taken # None => Own(taken)) /\ \A k \in 1..Len(ran) : Own(ran[k])

Inv == Types /\ Ids /\ Messages /\ Table /\ Results

AsksRight == Asks \in [Calls -> Answers]

LEMMA ResultIsSome == None \notin Result
  BY DEF None, Result

LEMMA InitInv == Init => Inv
<1> SUFFICES ASSUME Init PROVE Inv
  OBVIOUS
<1>1. Types
  BY DEF Init, Types
<1>2. Ids /\ Messages /\ Table /\ Results
  BY DEF Init, Ids, Messages, Table, Results
<1> QED BY <1>1, <1>2 DEF Inv

-----------------------------------------------------------------------------
(* CallMethod() *)

LEMMA NumberInv ==
  ASSUME Inv, NEW c \in Calls, Number(c)
  PROVE  Inv'
<1>1. Types'
  BY DEF Inv, Types, Number
<1>2. /\ id'[c] = id_ + 1 /\ pc'[c] = "numbered" /\ id_' = id_ + 1
      /\ \A d \in Calls : d # c => id'[d] = id[d] /\ pc'[d] = pc[d]
  BY DEF Inv, Types, Number
<1>3. id_ \in Nat /\ \A d \in Calls : id[d] \in Nat /\ id[d] <= id_
  BY DEF Inv, Types, Ids
<1>4. Ids'
  <2>1. \A d \in Calls : id'[d] <= id_' /\ (id'[d] = 0 <=> pc'[d] = "idle")
    BY <1>2, <1>3 DEF Inv, Ids
  <2>2. \A d, e \in Calls : id'[d] = id'[e] /\ id'[d] # 0 => d = e
    BY <1>2, <1>3 DEF Inv, Ids
  <2> QED BY <2>1, <2>2 DEF Ids
<1>5. \A m : SentBy(m, pc, id) => SentBy(m, pc', id')
  BY <1>2 DEF Number, SentBy
<1>6. Messages'
  BY <1>5, Zenon DEF Inv, Messages, Number
<1>7. Table'
  BY <1>2, <1>3 DEF Inv, Table, Ids, Number
<1>8. Results'
  BY DEF Inv, Results, Own, Number
<1> QED BY <1>1, <1>4, <1>6, <1>7, <1>8 DEF Inv

LEMMA RegisterInv ==
  ASSUME Inv, NEW c \in Calls, Register(c)
  PROVE  Inv'
<1>1. Types'
  BY DEF Inv, Types, Register
<1>2. /\ pc[c] = "numbered" /\ pc'[c] = "registered"
      /\ \A d \in Calls : d # c => pc'[d] = pc[d]
  BY DEF Inv, Types, Register
<1>3. Ids'
  BY <1>2 DEF Inv, Ids, Register
<1>4. \A m : SentBy(m, pc, id) => SentBy(m, pc', id')
  BY <1>2 DEF Register, SentBy
<1>5. Messages'
  BY <1>4, Zenon DEF Inv, Messages, Register
<1>6. Table'
  <2>1. /\ DOMAIN outstandings_' = DOMAIN outstandings_ \cup {id[c]}
        /\ \A i \in DOMAIN outstandings_' :
             outstandings_'[i] = IF i = id[c] THEN c ELSE outstandings_[i]
    BY DEF Register
  <2>2. \A d \in Calls : d # c => id[d] # id[c]
    BY <1>2 DEF Inv, Ids
  <2>3. id' = id
    BY DEF Register
  <2> QED BY <1>2, <2>1, <2>2, <2>3 DEF Inv, Table
<1>7. Results'
  BY DEF Inv, Results, Own, Register
<1> QED BY <1>1, <1>3, <1>5, <1>6, <1>7 DEF Inv

\* The rest of a queue has what was in it.
LEMMA TailQueue ==
  ASSUME NEW S, NEW queue \in Seq(S), queue # <<>>
  PROVE  /\ Head(queue) \in S /\ Head(queue) = queue[1] /\ 1 \in 1..Len(queue)
         /\ Tail(queue) \in Seq(S)
         /\ \A k \in 1..Len(Tail(queue)) : k + 1 \in 1..Len(queue) /\ Tail(queue)[k] = queue[k + 1]
  OBVIOUS

LEMMA SendRequestInv ==
  ASSUME Inv, NEW c \in Calls, SendRequest(c)
  PROVE  Inv'
<1> DEFINE m == [id |-> id[c], call |-> c]
<1>1. m \in Request /\ toServer \in Seq(Request) /\ toServer' = send(toServer, m)
  BY DEF Inv, Types, Request, SendRequest
<1> HIDE DEF m
<1>2. /\ toServer' \in Seq(Request)
      /\ \A k \in 1..Len(toServer') :
           toServer'[k] = m \/ \E j \in 1..Len(toServer) : toServer'[k] = toServer[j]
  <2>1. CASE up
    BY <1>1, <2>1 DEF send
  <2>2. CASE ~up
    BY <1>1, <2>2 DEF send
  <2> QED BY <2>1, <2>2
<1>3. /\ pc[c] = "registered" /\ pc'[c] = "returned" /\ pc' \in [Calls -> {"idle", "numbered", "registered", "returned"}]
      /\ \A d \in Calls : d # c => pc'[d] = pc[d]
  BY DEF Inv, Types, SendRequest, Ready
<1>4. Types'
  BY <1>2, <1>3 DEF Inv, Types, SendRequest
<1>5. Ids'
  BY <1>3 DEF Inv, Ids, SendRequest
<1>6. \A n : SentBy(n, pc, id) => SentBy(n, pc', id')
  BY <1>3 DEF SendRequest, SentBy
<1>7. SentBy(m, pc', id')
  BY <1>3 DEF SendRequest, SentBy, m
<1>8. Messages'
  <2>1. \A k \in 1..Len(toServer') : SentBy(toServer'[k], pc', id')
    BY <1>2, <1>6, <1>7 DEF Inv, Messages
  <2>2. /\ \A n \in services : SentBy(n, pc', id')
        /\ \A k \in 1..Len(toClient) : SentBy(toClient[k], pc', id')
    BY <1>6 DEF Inv, Messages
  <2> QED BY <2>1, <2>2, Zenon DEF Inv, Messages, SendRequest
<1>9. Table'
  BY <1>3 DEF Inv, Table, SendRequest
<1>10. Results'
  BY SMTT(30) DEF Inv, Results, Own, SendRequest
<1> QED BY <1>4, <1>5, <1>8, <1>9, <1>10 DEF Inv

-----------------------------------------------------------------------------
(* The server *)

\* An answer with the id and the call of a request it answers truly.
LEMMA AnswerInv ==
  ASSUME AsksRight, Inv, NEW m \in Request, SentBy(m, pc, id),
         toClient' = send(toClient, Response(m.id, Asks[m.call], m.call)), UNCHANGED client
  PROVE  /\ toClient' \in Seq(Reply)
         /\ \A k \in 1..Len(toClient') :
              SentBy(toClient'[k], pc', id') /\ toClient'[k].answer = Asks[toClient'[k].call]
<1> DEFINE r == Response(m.id, Asks[m.call], m.call)
<1>1. m.call \in Calls /\ m.id \in Nat /\ Asks[m.call] \in Answers
  BY DEF Request, AsksRight
<1>2. r \in Reply /\ SentBy(r, pc, id) /\ r.answer = Asks[r.call]
  BY <1>1 DEF Reply, Response, SentBy
<1>0. toClient \in Seq(Reply) /\ toClient' = send(toClient, r)
  BY DEF Inv, Types
<1> HIDE DEF r
<1>3. /\ toClient' \in Seq(Reply)
      /\ \A k \in 1..Len(toClient') :
           toClient'[k] = r \/ \E j \in 1..Len(toClient) : toClient'[k] = toClient[j]
  <2>1. CASE up
    BY <1>0, <1>2, <2>1 DEF send
  <2>2. CASE ~up
    BY <1>0, <1>2, <2>2, SMTT(30) DEF send
  <2> QED BY <2>1, <2>2
<1>4. \A k \in 1..Len(toClient') : SentBy(toClient'[k], pc, id) /\ toClient'[k].answer = Asks[toClient'[k].call]
  BY <1>2, <1>3, SMTT(30) DEF Inv, Messages
<1>5. pc' = pc /\ id' = id
  BY DEF client
<1> QED BY <1>3, <1>4, <1>5 DEF SentBy

\* What a step of the server has to keep.
LEMMA ServerInv ==
  ASSUME Inv, UNCHANGED client,
         toServer' \in Seq(Request), \A k \in 1..Len(toServer') : SentBy(toServer'[k], pc, id),
         services' \subseteq Request, \A m \in services' : SentBy(m, pc, id) /\ Asks[m.call] = "response",
         toClient' \in Seq(Reply),
         \A k \in 1..Len(toClient') : SentBy(toClient'[k], pc', id') /\ toClient'[k].answer = Asks[toClient'[k].call]
  PROVE  Inv'
<1>1. Types'
  BY DEF Inv, Types, client
<1>2. Ids' /\ Table' /\ Results'
  BY DEF Inv, Ids, Table, Results, Own, client
<1>3. Messages'
  BY DEF Messages, SentBy, client
<1> QED BY <1>1, <1>2, <1>3 DEF Inv

LEMMA OnRequestInv ==
  ASSUME AsksRight, Inv, onRequest
  PROVE  Inv'
<1> DEFINE m == Head(toServer)
<1>1. UNCHANGED client /\ toServer \in Seq(Request) /\ toServer # <<>> /\ toServer' = Tail(toServer)
  BY DEF Inv, Types, onRequest
<1>2. m \in Request /\ SentBy(m, pc, id)
  BY <1>1, TailQueue DEF Inv, Messages
<1>3. toServer' \in Seq(Request) /\ \A k \in 1..Len(toServer') : SentBy(toServer'[k], pc, id)
  BY <1>1, TailQueue DEF Inv, Messages
<1>4. services \subseteq Request /\ \A n \in services : SentBy(n, pc, id) /\ Asks[n.call] = "response"
  BY SMTT(30) DEF Inv, Types, Messages
<1>5. CASE toClient' = send(toClient, Response(m.id, Asks[m.call], m.call)) /\ UNCHANGED services
  <2>1. /\ toClient' \in Seq(Reply)
        /\ \A k \in 1..Len(toClient') :
             SentBy(toClient'[k], pc', id') /\ toClient'[k].answer = Asks[toClient'[k].call]
    BY <1>1, <1>2, <1>5, AnswerInv, Zenon
  <2>2. services' \subseteq Request /\ \A n \in services' : SentBy(n, pc, id) /\ Asks[n.call] = "response"
    BY <1>4, <1>5, Zenon
  <2> QED BY <1>1, <1>3, <2>1, <2>2, ServerInv, ZenonT(60)
<1>6. CASE Asks[m.call] = "response" /\ services' = services \cup {m} /\ UNCHANGED toClient
  <2>1. /\ toClient' \in Seq(Reply)
        /\ \A k \in 1..Len(toClient') :
             SentBy(toClient'[k], pc', id') /\ toClient'[k].answer = Asks[toClient'[k].call]
    BY <1>1, <1>6 DEF Inv, Types, Messages, SentBy, client
  <2>2. services' \subseteq Request /\ \A n \in services' : SentBy(n, pc, id) /\ Asks[n.call] = "response"
    BY <1>2, <1>4, <1>6
  <2> QED BY <1>1, <1>3, <2>1, <2>2, ServerInv, ZenonT(60)
<1> QED BY <1>5, <1>6 DEF onRequest, ErrorAnswered, doneCallback

LEMMA ServiceDoneInv ==
  ASSUME AsksRight, Inv, NEW m \in services, serviceDone(m)
  PROVE  Inv'
<1>1. m \in Request /\ SentBy(m, pc, id) /\ Asks[m.call] = "response" /\ UNCHANGED <<client, toServer>>
  BY DEF Inv, Types, Messages, serviceDone, client
<1>2. /\ toClient' \in Seq(Reply)
      /\ \A k \in 1..Len(toClient') :
           SentBy(toClient'[k], pc', id') /\ toClient'[k].answer = Asks[toClient'[k].call]
  BY <1>1, AnswerInv DEF serviceDone, doneCallback
<1>3. services' \subseteq Request /\ \A n \in services' : SentBy(n, pc, id) /\ Asks[n.call] = "response"
  BY DEF Inv, Types, Messages, serviceDone
<1>4. toServer' \in Seq(Request) /\ \A k \in 1..Len(toServer') : SentBy(toServer'[k], pc, id)
  BY <1>1 DEF Inv, Types, Messages
<1> QED BY <1>1, <1>2, <1>3, <1>4, ServerInv

-----------------------------------------------------------------------------
(* The client's loop, and the end *)

\* A response finds the call it is the answer to.
LEMMA FoundOwn ==
  ASSUME Inv, toClient # <<>>, Head(toClient).id \in DOMAIN outstandings_
  PROVE  LET m == Head(toClient)
         IN  /\ outstandings_[m.id] = m.call /\ m.call \in Calls
             /\ m.answer \in Answers /\ m.answer = Asks[m.call] /\ m.id = id[m.call]
<1> DEFINE m == Head(toClient)
           c == outstandings_[m.id]
<1>1. m \in Reply /\ SentBy(m, pc, id) /\ m.answer = Asks[m.call]
  BY TailQueue DEF Inv, Types, Messages
<1>2. c \in Calls /\ id[c] = m.id
  BY DEF Inv, Table
<1>3. id[m.call] # 0 /\ id[m.call] = m.id /\ m.call \in Calls
  BY <1>1 DEF Inv, Ids, SentBy
<1>4. c = m.call
  BY <1>2, <1>3 DEF Inv, Ids
<1> QED BY <1>1, <1>3, <1>4 DEF Reply

LEMMA OnResponseInv ==
  ASSUME Inv, onResponse
  PROVE  Inv'
<1> DEFINE m == Head(toClient)
<1>1. /\ toClient \in Seq(Reply) /\ toClient # <<>> /\ toClient' = Tail(toClient)
      /\ UNCHANGED <<pc, id, id_, ran, toServer, services>>
  BY DEF Inv, Types, onResponse
<1>2. /\ toClient' \in Seq(Reply)
      /\ \A k \in 1..Len(toClient') : k + 1 \in 1..Len(toClient) /\ toClient'[k] = toClient[k + 1]
  BY <1>1, TailQueue
<1>3. Messages'
  BY <1>1, <1>2 DEF Inv, Messages
<1>4. Ids'
  BY <1>1 DEF Inv, Ids
<1>5. CASE m.id \in DOMAIN outstandings_
  <2> DEFINE r == [call |-> outstandings_[m.id], answer |-> m.answer, of |-> m.call]
  <2>1. taken' = r /\ outstandings_' = Restrict(outstandings_, DOMAIN outstandings_ \ {m.id})
    BY <1>5 DEF onResponse, Found, Erased
  <2>2. r \in Result /\ Own(r)
    BY <1>1, <1>5, FoundOwn, SMTT(30) DEF Result, Own
  <2>3. Types'
    BY <1>1, <1>2, <2>1, <2>2, SMTT(30) DEF Inv, Types
  <2>4. Table'
    BY <1>1, <2>1, SMTT(30) DEF Inv, Table, Restrict
  <2>5. Results'
    BY <1>1, <2>1, <2>2 DEF Inv, Results, Own
  <2> QED BY <1>3, <1>4, <2>3, <2>4, <2>5 DEF Inv
<1>6. CASE m.id \notin DOMAIN outstandings_
  <2>1. taken' = taken /\ outstandings_' = outstandings_
    BY <1>6 DEF onResponse
  <2>2. Types' /\ Table' /\ Results'
    BY <1>1, <1>2, <2>1 DEF Inv, Types, Table, Results, Own
  <2> QED BY <1>3, <1>4, <2>2 DEF Inv
<1> QED BY <1>5, <1>6

LEMMA RunDoneInv ==
  ASSUME Inv, RunDone
  PROVE  Inv'
<1>1. taken \in Result /\ Own(taken) /\ ran \in Seq(Result)
  BY DEF Inv, Types, Results, RunDone
<1>2. ran' \in Seq(Result) /\ \A k \in 1..Len(ran') : ran'[k] = taken \/ (k \in 1..Len(ran) /\ ran'[k] = ran[k])
  BY <1>1 DEF RunDone
<1>3. Results'
  BY <1>1, <1>2, SMTT(30) DEF Inv, Results, Own, RunDone
<1>4. Types' /\ Ids' /\ Messages' /\ Table'
  BY <1>2 DEF Inv, Types, Ids, Messages, Table, RunDone
<1> QED BY <1>3, <1>4 DEF Inv

LEMMA EndInv ==
  ASSUME Inv, disconnect \/ destroy \/ UNCHANGED vars
  PROVE  Inv'
<1>1. CASE disconnect
  BY <1>1, SMTT(30) DEF Inv, Types, Ids, Messages, Table, Results, Own, disconnect, client
<1>2. CASE destroy
  BY <1>2, SMTT(30) DEF Inv, Types, Ids, Messages, Table, Results, Own, destroy
<1>3. CASE UNCHANGED vars
  BY <1>3, Zenon DEF Inv, Types, Ids, Messages, Table, Results, Own, vars, client
<1> QED BY <1>1, <1>2, <1>3, SMTT(30)

LEMMA NextInv ==
  ASSUME AsksRight, Inv, [Next]_vars
  PROVE  Inv'
  BY NumberInv, RegisterInv, SendRequestInv, OnRequestInv, ServiceDoneInv, OnResponseInv,
     RunDoneInv, EndInv DEF Next

\* However the calls of any number of threads and their answers cross, done of a call
\* gets the answer to its own request (RpcChannel.cc:58-69, 86-114).
THEOREM AnswersOwn ==
  ASSUME AsksRight
  PROVE  Spec => []OwnAnswer
<1>1. Inv => OwnAnswer
  BY DEF Inv, Results, Own, OwnAnswer
<1>2. Inv /\ [Next]_vars => Inv'
  BY NextInv
<1> QED BY <1>1, <1>2, InitInv, PTL DEF Spec

-----------------------------------------------------------------------------
(* Response and done are given back once. *)

Taken(c) == taken # None /\ taken.call = c
Waits(c) == id[c] \in DOMAIN outstandings_
Over(c) == pc[c] \in {"registered", "returned"} /\ ~Waits(c)

\* A registered call waits, or was taken, or was done, and is in one place only.
Place ==
  \A c \in Calls :
    /\ Over(c) /\ ~Taken(c) => Count(ran, c) = 1
    /\ Over(c) /\ Taken(c) => Count(ran, c) = 0
    /\ ~Over(c) => Count(ran, c) = 0 /\ ~Taken(c)

\* ~RpcChannel() has deleted what waited.
Ended ==
  IF "client" \in alive THEN deleted = {}
  ELSE taken = None /\ deleted = deletes /\ \A c \in Calls : pc[c] \in {"idle", "returned"}

LEMMA CountType ==
  ASSUME NEW s \in Seq(Result), NEW c
  PROVE  /\ IsFiniteSet({k \in 1..Len(s) : s[k].call = c})
         /\ Count(s, c) = Cardinality({k \in 1..Len(s) : s[k].call = c})
         /\ Count(s, c) \in Nat
<1> DEFINE S == {k \in 1..Len(s) : s[k].call = c}
<1>1. IsFiniteSet(1..Len(s))
  BY FS_Interval
<1>2. IsFiniteSet(S)
  BY <1>1, FS_Subset
<1>3. {k \in DOMAIN s : s[k].call = c} = S
  OBVIOUS
<1>4. Count(s, c) = Cardinality(S)
  BY <1>3, Zenon DEF Count
<1> QED BY <1>2, <1>4, FS_CardinalityType

\* One more result counts for its own call only.
LEMMA CountAppend ==
  ASSUME NEW s \in Seq(Result), NEW r \in Result, NEW c
  PROVE  /\ r.call = c => Count(Append(s, r), c) = Count(s, c) + 1
         /\ r.call # c => Count(Append(s, r), c) = Count(s, c)
<1> DEFINE t == Append(s, r)
           S == {k \in 1..Len(s) : s[k].call = c}
           T == {k \in 1..Len(t) : t[k].call = c}
<1>1. /\ t \in Seq(Result) /\ Len(t) = Len(s) + 1 /\ t[Len(s) + 1] = r
      /\ \A k \in 1..Len(s) : t[k] = s[k]
  OBVIOUS
<1>2. /\ IsFiniteSet(S) /\ Count(s, c) = Cardinality(S) /\ Count(t, c) = Cardinality(T)
      /\ Count(s, c) \in Nat
  BY <1>1, CountType, Zenon
<1>3. CASE r.call = c
  <2>1. T = S \cup {Len(s) + 1} /\ Len(s) + 1 \notin S
    BY <1>1, <1>3
  <2>2. Cardinality(S \cup {Len(s) + 1}) = Cardinality(S) + 1
    BY <1>2, <2>1, FS_AddElement, Zenon
  <2> QED BY <1>2, <1>3, <2>1, <2>2, Zenon
<1>4. CASE r.call # c
  <2>1. T = S
    BY <1>1, <1>4
  <2> QED BY <1>2, <1>4, <2>1, Zenon
<1> QED BY <1>3, <1>4

OnceInv == Inv /\ Place /\ Ended

LEMMA InitOnce == Init => OnceInv
<1> SUFFICES ASSUME Init PROVE OnceInv
  OBVIOUS
<1>1. \A c \in Calls : Count(ran, c) = 0
  BY FS_EmptySet DEF Init, Count
<1>2. Place
  BY <1>1 DEF Init, Place, Over, Taken
<1>3. Ended
  BY DEF Init, Ended
<1> QED BY <1>2, <1>3, InitInv DEF OnceInv

\* Number(), SendRequest() and the server's steps move no call.
LEMMA PlaceKept ==
  ASSUME Inv, Place, UNCHANGED <<ran, taken>>,
         \A c \in Calls : Over(c)' <=> Over(c)
  PROVE  Place'
  BY DEF Place, Taken

LEMMA CallOnce ==
  ASSUME OnceInv, NEW c \in Calls, Number(c) \/ Register(c) \/ SendRequest(c)
  PROVE  Place' /\ Ended'
<1>1. /\ pc \in [Calls -> {"idle", "numbered", "registered", "returned"}]
      /\ "client" \in alive /\ UNCHANGED <<ran, taken, alive, deleted>>
  BY DEF OnceInv, Inv, Types, Ended, Number, Register, SendRequest, Ready
<1>2. Ended'
  BY <1>1 DEF OnceInv, Ended
<1>3. CASE Number(c)
  <2>1. \A d \in Calls : d # c => pc'[d] = pc[d] /\ Waits(d)' = Waits(d)
    BY <1>1, <1>3 DEF OnceInv, Inv, Types, Number, Waits
  <2>2. pc[c] = "idle" /\ pc'[c] = "numbered"
    BY <1>1, <1>3 DEF Number
  <2> QED BY <1>1, <1>2, <2>1, <2>2, PlaceKept DEF OnceInv, Over
<1>4. CASE Register(c)
  <2>1. pc[c] = "numbered" /\ pc'[c] = "registered" /\ \A d \in Calls : d # c => pc'[d] = pc[d]
    BY <1>1, <1>4 DEF Register
  <2>2. id' = id /\ DOMAIN outstandings_' = DOMAIN outstandings_ \cup {id[c]}
    BY <1>4 DEF Register
  <2>3. \A d \in Calls : d # c => id[d] # id[c]
    BY <2>1 DEF OnceInv, Inv, Ids
  <2>4. Waits(c)' /\ \A d \in Calls : d # c => Waits(d)' = Waits(d)
    BY <2>2, <2>3 DEF Waits
  <2> QED BY <1>1, <1>2, <2>1, <2>4, PlaceKept, SMTT(30) DEF OnceInv, Over
<1>5. CASE SendRequest(c)
  <2>1. /\ pc[c] = "registered" /\ pc'[c] = "returned" /\ \A d \in Calls : d # c => pc'[d] = pc[d]
        /\ \A d \in Calls : Waits(d)' = Waits(d)
    BY <1>1, <1>5 DEF SendRequest, Ready, Waits
  <2> QED BY <1>1, <1>2, <2>1, PlaceKept, SMTT(30) DEF OnceInv, Over
<1> QED BY <1>3, <1>4, <1>5

LEMMA OnResponseOnce ==
  ASSUME OnceInv, onResponse
  PROVE  Place' /\ Ended'
<1> DEFINE m == Head(toClient)
<1>1. Inv /\ Place /\ taken = None /\ "client" \in alive /\ UNCHANGED <<pc, id, ran, alive, deleted>>
  BY DEF OnceInv, onResponse
<1>2. Ended'
  BY <1>1 DEF OnceInv, Ended
<1>3. CASE m.id \in DOMAIN outstandings_
  <2>1. PICK c \in Calls :
          c = m.call /\ outstandings_[m.id] = c /\ m.answer \in Answers /\ m.id = id[c]
    BY <1>1, <1>3, FoundOwn DEF onResponse
  <2>2. /\ taken' = [call |-> c, answer |-> m.answer, of |-> c]
        /\ DOMAIN outstandings_' = DOMAIN outstandings_ \ {id[c]}
    BY <1>3, <2>1, SMTT(30) DEF onResponse, Found, Erased, Restrict
  <2>3. taken' \in Result
    BY <2>1, <2>2, SMTT(30) DEF Result
  <2>4. taken' # None /\ taken'.call = c
    BY <2>2, <2>3, ResultIsSome, SMTT(30)
  <2>5. Waits(c) /\ ~Waits(c)'
    BY <1>1, <1>3, <2>1, <2>2 DEF Waits
  <2>6. pc[c] \in {"registered", "returned"}
    BY <1>1, <2>1, <2>5 DEF Inv, Types, Table, Waits
  <2>7. \A d \in Calls : d # c => id[d] # id[c]
    BY <1>1, <2>1, <2>6 DEF Inv, Ids
  <2>8. Over(c)' /\ Taken(c)' /\ ~Over(c)
    BY <1>1, <2>4, <2>5, <2>6 DEF Over, Taken
  <2>9. \A d \in Calls : d # c => (Over(d)' <=> Over(d)) /\ ~Taken(d)' /\ ~Taken(d)
    BY <1>1, <2>2, <2>4, <2>7, SMTT(30) DEF Over, Waits, Taken
  <2>10. Place'
    BY <1>1, <2>1, <2>8, <2>9 DEF Place
  <2> QED BY <1>2, <2>10, SMTT(30)
<1>4. CASE m.id \notin DOMAIN outstandings_
  <2>1. taken' = taken /\ outstandings_' = outstandings_
    BY <1>4 DEF onResponse
  <2> QED BY <1>1, <1>2, <2>1, PlaceKept DEF Waits, Over
<1> QED BY <1>3, <1>4

LEMMA RunDoneOnce ==
  ASSUME OnceInv, RunDone
  PROVE  Place' /\ Ended'
<1>1. /\ Inv /\ Place /\ taken # None /\ taken \in Result /\ ran \in Seq(Result)
      /\ ran' = Append(ran, taken) /\ taken' = None /\ UNCHANGED <<pc, id, outstandings_, alive, deleted>>
  BY DEF OnceInv, Inv, Types, RunDone
<1>2. \A d \in Calls :
        /\ Taken(d) => Count(ran', d) = Count(ran, d) + 1
        /\ ~Taken(d) => Count(ran', d) = Count(ran, d)
        /\ ~Taken(d)'
  BY <1>1, CountAppend DEF Taken
<1>3. \A d \in Calls : Over(d)' <=> Over(d)
  BY <1>1 DEF Over, Waits
<1>4. Place'
  BY <1>1, <1>2, <1>3 DEF Place
<1>5. Ended'
  BY <1>1 DEF OnceInv, Ended
<1> QED BY <1>4, <1>5

LEMMA NextOnce ==
  ASSUME AsksRight, OnceInv, [Next]_vars
  PROVE  OnceInv'
<1>1. Inv'
  BY NextInv DEF OnceInv
<1>2. CASE onRequest \/ (\E m \in services : serviceDone(m)) \/ disconnect \/ UNCHANGED vars
  <2>1. UNCHANGED client /\ ("client" \in alive' <=> "client" \in alive)
    BY <1>2 DEF onRequest, serviceDone, disconnect, vars
  <2>2. Place'
    BY <2>1, PlaceKept DEF OnceInv, client, Waits, Over
  <2>3. Ended'
    BY <2>1 DEF OnceInv, Ended, client, deletes
  <2> QED BY <1>1, <2>2, <2>3 DEF OnceInv
<1>3. CASE destroy
  <2>1. Place'
    BY <1>3, PlaceKept DEF OnceInv, destroy, Waits, Over
  <2>2. Ended'
    BY <1>3 DEF OnceInv, Ended, destroy, deletes
  <2> QED BY <1>1, <2>1, <2>2 DEF OnceInv
<1> QED BY <1>1, <1>2, <1>3, CallOnce, OnResponseOnce, RunDoneOnce DEF Next, OnceInv

\* The response and done of a call are given back once, after done was run or by
\* ~RpcChannel(), and when that is over by one of the two, for any number of calls
\* (RpcChannel.cc:34-43, 96-105).
THEOREM GivesBackOnce ==
  ASSUME AsksRight
  PROVE  Spec => []GivenBackOnce
<1>1. OnceInv => GivenBackOnce
  <2> SUFFICES ASSUME OnceInv, NEW c \in Calls
               PROVE  LET times == Count(ran, c) + (IF Taken(c) THEN 1 ELSE 0)
                                     + (IF c \in deleted THEN 1 ELSE 0)
                      IN  times <= 1 /\ (pc[c] = "returned" /\ "client" \notin alive => times = 1)
    BY DEF GivenBackOnce, Taken
  <2>1. Count(ran, c) \in Nat /\ pc[c] \in {"idle", "numbered", "registered", "returned"}
    BY CountType, Zenon DEF OnceInv, Inv, Types
  <2>2. CASE "client" \in alive
    BY <2>1, <2>2 DEF OnceInv, Place, Ended
  <2>3. CASE "client" \notin alive
    <3>1. ~Taken(c) /\ pc[c] \in {"idle", "returned"} /\ deleted = Range(outstandings_)
      BY <2>3 DEF OnceInv, Ended, Taken, deletes
    <3>2. c \in deleted <=> Waits(c)
      BY <2>1, <3>1, SMTT(30) DEF OnceInv, Inv, Types, Ids, Table, Waits, Range
    <3>3. CASE pc[c] = "idle"
      <4>1. ~Waits(c)
        BY <3>3 DEF OnceInv, Inv, Table, Waits
      <4> QED BY <2>1, <3>1, <3>2, <3>3, <4>1 DEF OnceInv, Place, Over
    <3>4. CASE pc[c] = "returned"
      BY <2>1, <3>1, <3>2, <3>4 DEF OnceInv, Place, Over
    <3> QED BY <3>1, <3>3, <3>4
  <2> QED BY <2>2, <2>3
<1>2. OnceInv /\ [Next]_vars => OnceInv'
  BY NextOnce
<1> QED BY <1>1, <1>2, InitOnce, PTL DEF Spec
=============================================================================
