--------------------------- MODULE MessageBusProofs ---------------------------
(***************************************************************************)
(* For any number of workers, services and crashes: the bus keeps one       *)
(* message per question, and implements RequestReply.                       *)
(***************************************************************************)
EXTENDS MessageBus, TLAPS

USE CrashAssumption, QuestionAssumption, DistinctAssumption

\* What a message says goes with the question of its worker.
Honest ==
    \A m \in messages :
        /\ asking[m.who] # Nothing /\ m.who \notin lost
        /\ m.at \in QuestionPlace => m.body = asking[m.who]
        /\ m.at \in AnswerPlace => m.body = Answer(asking[m.who])

\* A worker whose message is lost still waits.
LostWaits == \A w \in lost : asking[w] # Nothing

IInv == TypeOK /\ MessageInOnePlace /\ Honest /\ LostWaits

\* The two halves of the way.
Places == QuestionPlace \cup AnswerPlace

LEMMA PlacesDiffer ==
    /\ QuestionPlace \cap AnswerPlace = {}
    /\ \A s \in Service : /\ In(s) \in QuestionPlace /\ Cur(s) \in QuestionPlace
                          /\ Out(s) \in AnswerPlace /\ Out(s) # Back
    /\ Front \in QuestionPlace /\ Hand \in QuestionPlace
    /\ Dealer \in AnswerPlace /\ Back \in AnswerPlace /\ Dealer # Back
  BY DEF QuestionPlace, AnswerPlace, Front, Hand, In, Cur, Out, Dealer, Back

\* An answer is one of three texts, none of them Nothing.
LEMMA AnswerType == \A q \in Question : Answer(q) \in Answers /\ Answer(q) # Nothing
  BY DEF Answer, Answers

-----------------------------------------------------------------------------
(* The kinds of step.  In each lemma m is the message that is handled.       *)

\* A message that goes on keeps what it says.
Forwards(m, place) ==
    /\ m \in messages
    /\ \/ m.at \in QuestionPlace /\ place \in QuestionPlace
       \/ m.at \in AnswerPlace /\ place \in AnswerPlace
    /\ messages' = Moved(m, place)
    /\ UNCHANGED <<asking, up, mysql, crashes, lost>>

LEMMA MessageShape ==
    ASSUME TypeOK, NEW m \in messages
    PROVE  /\ m.who \in Worker /\ m.at \in Places
           /\ m = [who |-> m.who, body |-> m.body, at |-> m.at]
           /\ m.at \in QuestionPlace => m.body \in Question
           /\ m.at \in AnswerPlace => m.body \in Answers
  BY PlacesDiffer DEF TypeOK, Message, Places

LEMMA ForwardsKeeps ==
    ASSUME IInv, NEW m, NEW place, Forwards(m, place)
    PROVE  messages' \subseteq Message /\ MessageInOnePlace' /\ Honest' /\ LostWaits'
  <1> DEFINE n == [m EXCEPT !.at = place]
  <1>0. m \in messages /\ messages' = (messages \ {m}) \cup {n}
    BY DEF Forwards, Moved
  <1>1. /\ n = [who |-> m.who, body |-> m.body, at |-> place]
        /\ n.who = m.who /\ n.body = m.body /\ n.at = place
    BY <1>0, MessageShape DEF IInv
  <1>2. n \in Message
    BY <1>0, <1>1, MessageShape, PlacesDiffer DEF IInv, Forwards, Message
  <1> HIDE DEF n
  <1>3. messages' \subseteq Message
    BY <1>0, <1>2 DEF IInv, TypeOK
  <1>4. MessageInOnePlace'
    <2>1. \A k, l \in messages' : k.who = l.who => k = l
      BY <1>0, <1>1 DEF IInv, MessageInOnePlace
    <2>2. ASSUME NEW w \in Worker
          PROVE  (\E k \in messages' : k.who = w) <=> (\E k \in messages : k.who = w)
      BY <1>0, <1>1
    <2> QED
      BY <2>1, <2>2 DEF IInv, MessageInOnePlace, Forwards
  <1>5. Honest'
    BY <1>0, <1>1, PlacesDiffer DEF IInv, Honest, Forwards
  <1>6. LostWaits'
    BY DEF IInv, LostWaits, Forwards
  <1> QED
    BY <1>3, <1>4, <1>5, <1>6

LEMMA AskKeeps ==
    ASSUME IInv, NEW w \in Worker, NEW q \in Question, Ask(w, q)
    PROVE  IInv'
  <1> DEFINE n == [who |-> w, body |-> q, at |-> Front]
  <1>0. /\ asking[w] = Nothing /\ asking' = [asking EXCEPT ![w] = q]
        /\ messages' = messages \cup {n}
        /\ UNCHANGED <<broker, ready, up, mysql, crashes, lost>>
    BY DEF Ask, serviceVars
  <1>1. n.who = w /\ n.body = q /\ n.at = Front /\ n \in Message
    BY PlacesDiffer DEF Message
  <1> HIDE DEF n
  <1>2. w \notin lost /\ \A m \in messages : m.who # w
    BY <1>0 DEF IInv, Honest, LostWaits
  <1>3. TypeOK'
    BY <1>0, <1>1 DEF IInv, TypeOK
  <1>4. \A v \in Worker : asking'[v] = IF v = w THEN q ELSE asking[v]
    BY <1>0 DEF IInv, TypeOK
  <1>5. MessageInOnePlace'
    <2>1. \A k, l \in messages' : k.who = l.who => k = l
      BY <1>0, <1>1, <1>2 DEF IInv, MessageInOnePlace
    <2>2. ASSUME NEW v \in Worker
          PROVE  asking'[v] # Nothing /\ v \notin lost' <=> \E m \in messages' : m.who = v
      BY <1>0, <1>1, <1>2, <1>4 DEF IInv, MessageInOnePlace
    <2> QED
      BY <2>1, <2>2 DEF MessageInOnePlace
  <1>6. Honest'
    <2> SUFFICES ASSUME NEW m \in messages'
                 PROVE  /\ asking'[m.who] # Nothing /\ m.who \notin lost'
                        /\ m.at \in QuestionPlace => m.body = asking'[m.who]
                        /\ m.at \in AnswerPlace => m.body = Answer(asking'[m.who])
      BY DEF Honest
    <2>1. CASE m = n
      BY <2>1, <1>0, <1>1, <1>2, <1>4, PlacesDiffer
    <2>2. CASE m \in messages
      <3>1. m.who \in Worker /\ m.who # w
        BY <2>2, <1>2, MessageShape DEF IInv
      <3> QED
        BY <2>2, <3>1, <1>0, <1>4 DEF IInv, Honest
    <2> QED
      BY <2>1, <2>2, <1>0
  <1>7. LostWaits'
    BY <1>0, <1>4 DEF IInv, LostWaits, TypeOK
  <1> QED
    BY <1>3, <1>5, <1>6, <1>7 DEF IInv

LEMMA ReceiveKeeps ==
    ASSUME IInv, NEW w \in Worker, Receive(w)
    PROVE  IInv'
  <1> PICK m \in messages :
        /\ m.who = w /\ m.at = Back
        /\ asking' = [asking EXCEPT ![w] = Nothing]
        /\ messages' = messages \ {m}
        /\ UNCHANGED <<broker, ready, up, mysql, crashes, lost>>
    BY DEF Receive, serviceVars
  <1>1. TypeOK'
    BY DEF IInv, TypeOK
  <1>2. \A v \in Worker : asking'[v] = IF v = w THEN Nothing ELSE asking[v]
    BY DEF IInv, TypeOK
  <1>3. w \notin lost /\ \A k \in messages' : k.who # w
    BY DEF IInv, Honest, MessageInOnePlace
  <1>4. MessageInOnePlace'
    <2>1. \A k, l \in messages' : k.who = l.who => k = l
      BY DEF IInv, MessageInOnePlace
    <2>2. ASSUME NEW v \in Worker
          PROVE  asking'[v] # Nothing /\ v \notin lost' <=> \E k \in messages' : k.who = v
      BY <1>2, <1>3 DEF IInv, MessageInOnePlace
    <2> QED
      BY <2>1, <2>2 DEF MessageInOnePlace
  <1>5. Honest'
    <2> SUFFICES ASSUME NEW k \in messages'
                 PROVE  /\ asking'[k.who] # Nothing /\ k.who \notin lost'
                        /\ k.at \in QuestionPlace => k.body = asking'[k.who]
                        /\ k.at \in AnswerPlace => k.body = Answer(asking'[k.who])
      BY DEF Honest
    <2>1. k \in messages /\ k.who \in Worker /\ k.who # w
      BY <1>3, MessageShape DEF IInv
    <2> QED
      BY <2>1, <1>2 DEF IInv, Honest
  <1>6. LostWaits'
    BY <1>2, <1>3 DEF IInv, LostWaits, TypeOK
  <1> QED
    BY <1>1, <1>4, <1>5, <1>6 DEF IInv

\* A question becomes its answer.
LEMMA ReplyKeeps ==
    ASSUME IInv, NEW s \in Service, Reply(s)
    PROVE  IInv'
  <1> PICK m \in messages :
        /\ m.at = Cur(s)
        /\ messages' = (messages \ {m}) \cup
              {[who |-> m.who, body |-> Answer(m.body), at |-> Out(s)]}
        /\ UNCHANGED <<asking, broker, ready, up, mysql, crashes, lost>>
    BY DEF Reply, serviceVars
  <1> DEFINE n == [who |-> m.who, body |-> Answer(m.body), at |-> Out(s)]
  <1>0. m \in messages /\ messages' = (messages \ {m}) \cup {n}
    OBVIOUS
  <1>1. m.who \in Worker /\ m.body \in Question /\ m.body = asking[m.who]
    BY MessageShape, PlacesDiffer DEF IInv, Honest
  <1>2. n \in Message /\ n.who = m.who /\ n.at = Out(s) /\ n.body = Answer(asking[m.who])
    BY <1>1, PlacesDiffer, AnswerType DEF Message
  <1> HIDE DEF n
  <1>3. TypeOK'
    BY <1>0, <1>2 DEF IInv, TypeOK
  <1>4. MessageInOnePlace'
    <2>1. \A k, l \in messages' : k.who = l.who => k = l
      BY <1>0, <1>2 DEF IInv, MessageInOnePlace
    <2>2. ASSUME NEW w \in Worker
          PROVE  (\E k \in messages' : k.who = w) <=> (\E k \in messages : k.who = w)
      BY <1>0, <1>2
    <2> QED
      BY <2>1, <2>2 DEF IInv, MessageInOnePlace
  <1>5. Honest'
    BY <1>0, <1>2, PlacesDiffer DEF IInv, Honest
  <1>6. LostWaits'
    BY DEF IInv, LostWaits
  <1> QED
    BY <1>3, <1>4, <1>5, <1>6 DEF IInv

\* The messages of a service that dies are the lost ones.
LEMMA DieKeeps ==
    ASSUME IInv, NEW s \in Service, Die(s), crashes' \in 0..MaxCrashes
    PROVE  IInv'
  <1>0. /\ messages' = messages \ Held(s) /\ Held(s) \subseteq messages
        /\ lost' = lost \cup {m.who : m \in Held(s)}
        /\ asking' = asking /\ broker' = broker /\ ready' = ready
        /\ up' = [up EXCEPT ![s] = "down"] /\ mysql' = [mysql EXCEPT ![s] = FALSE]
    BY DEF Die, Held
  <1>1. \A m \in Held(s) : m.who \in Worker
    BY <1>0, MessageShape DEF IInv
  <1>2. TypeOK'
    BY <1>0, <1>1 DEF IInv, TypeOK
  <1>3. MessageInOnePlace'
    BY <1>0 DEF IInv, MessageInOnePlace
  <1>4. Honest'
    BY <1>0 DEF IInv, Honest, MessageInOnePlace
  <1>5. LostWaits'
    BY <1>0 DEF IInv, LostWaits, Honest
  <1> QED
    BY <1>2, <1>3, <1>4, <1>5 DEF IInv

-----------------------------------------------------------------------------

LEMMA InitIInv == Init => IInv
  BY DEF Init, IInv, TypeOK, MessageInOnePlace, Honest, LostWaits

\* What the other processes do with a message is to pass it on.
Passes == \E m \in messages, place \in Places : Forwards(m, place)

LEMMA NextIInv == IInv /\ [Next]_vars => IInv'
  <1> SUFFICES ASSUME IInv, [Next]_vars PROVE IInv'
    OBVIOUS
  <1>1. CASE UNCHANGED vars
    BY <1>1 DEF vars, IInv, TypeOK, MessageInOnePlace, Honest, LostWaits
  <1>2. ASSUME NEW w \in Worker, NEW q \in Question, Ask(w, q) PROVE IInv'
    BY <1>2, AskKeeps
  <1>3. ASSUME NEW w \in Worker, Receive(w) PROVE IInv'
    BY <1>3, ReceiveKeeps
  <1>4. ASSUME Passes, broker' \in {"poll", "front", "send", "back"}, ready' = ready
        PROVE  IInv'
    <2> PICK m \in messages, place \in Places : Forwards(m, place)
      BY <1>4 DEF Passes
    <2>1. messages' \subseteq Message /\ MessageInOnePlace' /\ Honest' /\ LostWaits'
      BY ForwardsKeeps
    <2>2. TypeOK'
      BY <1>4, <2>1 DEF IInv, TypeOK, Forwards
    <2> QED
      BY <2>1, <2>2 DEF IInv
  <1>5. CASE Poll
    BY <1>5 DEF Poll, Readable, serviceVars, IInv, TypeOK, MessageInOnePlace, Honest, LostWaits
  <1>6. ASSUME NEW s \in Service, Connect(s) \/ ConnMySql(s) PROVE IInv'
    <2>1. CASE Connect(s)
      <3>1. TypeOK'
        BY <2>1 DEF Connect, IInv, TypeOK
      <3> QED
        BY <2>1, <3>1 DEF Connect, IInv, MessageInOnePlace, Honest, LostWaits
    <2>2. CASE ConnMySql(s)
      <3>1. TypeOK'
        <4>1. PICK connected \in BOOLEAN : mysql' = [mysql EXCEPT ![s] = connected]
          BY <2>2 DEF ConnMySql
        <4> QED
          BY <2>2, <4>1 DEF ConnMySql, IInv, TypeOK
      <3> QED
        BY <2>2, <3>1 DEF ConnMySql, IInv, MessageInOnePlace, Honest, LostWaits
    <2> QED
      BY <1>6, <2>1, <2>2
  <1>7. ASSUME NEW s \in Service, Reply(s) PROVE IInv'
    BY <1>7, ReplyKeeps
  <1>8. ASSUME NEW s \in Service, NullMySql(s) \/ Crash(s) PROVE IInv'
    <2>1. Die(s)
      BY <1>8 DEF NullMySql, Crash
    <2>2. crashes' \in 0..MaxCrashes
      BY <1>8 DEF NullMySql, Crash, IInv, TypeOK
    <2> QED
      BY <2>1, <2>2, DieKeeps
  <1>9. ASSUME NEW w \in Worker, FrontRecv(w) \/ BackForward(w) PROVE IInv'
    <2>1. Passes
      BY <1>9, PlacesDiffer
         DEF FrontRecv, BackForward, Routed, Passes, Forwards, Places, serviceVars
    <2>2. broker' \in {"poll", "front", "send", "back"} /\ ready' = ready
      BY <1>9 DEF FrontRecv, BackForward
    <2> QED
      BY <1>4, <2>1, <2>2
  <1>10. ASSUME NEW s \in Service, BackSend(s) PROVE IInv'
    <2>1. Passes
      BY <1>10, PlacesDiffer DEF BackSend, Given, Passes, Forwards, Places, serviceVars
    <2>2. broker' \in {"poll", "front", "send", "back"} /\ ready' = ready
      BY <1>10 DEF BackSend, AfterFront
    <2> QED
      BY <1>4, <2>1, <2>2
  <1>11. ASSUME NEW w \in Worker, NEW s \in Service, Recv(s, w) \/ Transmit(s, w)
         PROVE  IInv'
    <2>1. Passes
      BY <1>11, PlacesDiffer DEF Recv, Transmit, Passes, Forwards, Places, serviceVars
    <2>2. broker' = broker /\ ready' = ready
      BY <1>11 DEF Recv, Transmit
    <2> QED
      BY <1>4, <2>1, <2>2 DEF IInv, TypeOK
  <1> QED
    BY <1>1, <1>2, <1>3, <1>5, <1>6, <1>7, <1>8, <1>9, <1>10, <1>11 DEF Next

\* The variables keep their types, whatever dies and starts again.
THEOREM TypeCorrect == Spec => []TypeOK
  <1>1. IInv => TypeOK
    BY DEF IInv
  <1> QED
    BY <1>1, InitIInv, NextIInv, PTL DEF Spec

\* The bus keeps one message per question that is open, for any number of workers
\* and services and any number of crashes (rrBroker::start, rrServer::start).
THEOREM OneMessage == Spec => []MessageInOnePlace
  <1>1. IInv => MessageInOnePlace
    BY DEF IInv
  <1> QED
    BY <1>1, InitIInv, NextIInv, PTL DEF Spec

-----------------------------------------------------------------------------
(* The refinement.  reply[w] is the body of the one message that lies at the *)
(* worker's socket.                                                          *)

ReplyOf(w) == BodyOf(Replied(w))

LEMMA OneReply ==
    ASSUME MessageInOnePlace, NEW m \in messages, m.at = Back
    PROVE  Replied(m.who) = {m} /\ ReplyOf(m.who) = m.body
  <1>1. Replied(m.who) = {m}
    BY DEF MessageInOnePlace, Replied
  <1> QED
    BY <1>1 DEF ReplyOf, BodyOf

LEMMA NoReply ==
    ASSUME NEW w, \A m \in messages : m.who = w => m.at # Back
    PROVE  Replied(w) = {} /\ ReplyOf(w) = Nothing
  BY DEF Replied, ReplyOf, BodyOf

\* A step that puts nothing at a worker and takes nothing from it.
Quiet == /\ asking' = asking
         /\ {m \in messages : m.at = Back} = {m \in messages' : m.at = Back}

LEMMA QuietStutters == Quiet => UNCHANGED Bus!busVars
  <1> SUFFICES ASSUME Quiet PROVE UNCHANGED Bus!busVars
    OBVIOUS
  <1>1. ASSUME NEW w \in Worker PROVE Replied(w)' = Replied(w)
    BY DEF Quiet, Replied
  <1> QED
    BY <1>1 DEF Quiet, Bus!busVars

LEMMA ForwardsQuiet ==
    ASSUME IInv, NEW m, NEW place, Forwards(m, place), m.at # Back, place # Back
    PROVE  Quiet
  <1>1. [m EXCEPT !.at = place].at = place
    BY MessageShape DEF Forwards, IInv
  <1> QED
    BY <1>1 DEF Forwards, Moved, Quiet

LEMMA AskMaps ==
    ASSUME IInv, NEW w \in Worker, NEW q \in Question, Ask(w, q)
    PROVE  Bus!Ask(w, q)
  <1>1. /\ asking[w] = Nothing /\ asking' = [asking EXCEPT ![w] = q]
        /\ messages' = messages \cup {[who |-> w, body |-> q, at |-> Front]}
    BY DEF Ask
  <1>2. [who |-> w, body |-> q, at |-> Front].at # Back
    BY PlacesDiffer
  <1>3. ASSUME NEW v \in Worker PROVE Replied(v)' = Replied(v)
    BY <1>1, <1>2 DEF Replied
  <1> QED
    BY <1>1, <1>3 DEF Bus!Ask

LEMMA ReceiveMaps ==
    ASSUME IInv, IInv', NEW w \in Worker, Receive(w)
    PROVE  Bus!Receive(w)
  <1> PICK m \in messages : /\ m.who = w /\ m.at = Back
                            /\ asking' = [asking EXCEPT ![w] = Nothing]
                            /\ messages' = messages \ {m}
    BY DEF Receive
  <1>1. ReplyOf(w) = m.body /\ m.body # Nothing
    BY OneReply, MessageShape, PlacesDiffer DEF IInv, Answers
  <1>2. Replied(w)' = {}
    BY DEF IInv, MessageInOnePlace, Replied
  <1>3. ASSUME NEW v \in Worker, v # w PROVE Replied(v)' = Replied(v)
    BY <1>3 DEF Replied
  <1>4. \A v \in Worker : ReplyOf(v)' = IF v = w THEN Nothing ELSE ReplyOf(v)
    <2>1. BodyOf({}) = Nothing
      BY DEF BodyOf
    <2> QED
      BY <1>2, <1>3, <2>1 DEF ReplyOf
  <1> QED
    BY <1>1, <1>4 DEF Bus!Receive, ReplyOf

\* An answer put at the worker is the abstract answer to its question.
LEMMA ForwardMaps ==
    ASSUME IInv, IInv', NEW w \in Worker, BackForward(w)
    PROVE  Bus!Serve(w)
  <1> PICK m \in messages : /\ m.who = w /\ m.at = Dealer
                            /\ messages' = Moved(m, Back)
                            /\ asking' = asking
    BY DEF BackForward, Routed
  <1> DEFINE n == [m EXCEPT !.at = Back]
  <1>1. n.who = w /\ n.body = m.body /\ n.at = Back
    BY MessageShape DEF IInv
  <1>2. messages' = (messages \ {m}) \cup {n}
    BY DEF Moved
  <1> HIDE DEF n
  <1>3. asking[w] \in Question /\ asking[w] # Nothing /\ m.body = Answer(asking[w])
    BY PlacesDiffer DEF IInv, TypeOK, Honest
  <1>4. Replied(w) = {} /\ ReplyOf(w) = Nothing
    BY NoReply, PlacesDiffer DEF IInv, MessageInOnePlace
  <1>5. Replied(w)' = {n}
    BY <1>1, <1>2, PlacesDiffer DEF IInv, MessageInOnePlace, Replied
  <1>6. ASSUME NEW v \in Worker, v # w PROVE Replied(v)' = Replied(v)
    BY <1>1, <1>2, <1>6 DEF Replied
  <1>7. \A v \in Worker : ReplyOf(v)' = IF v = w THEN m.body ELSE ReplyOf(v)
    <2>1. BodyOf({n}) = m.body
      BY <1>1 DEF BodyOf
    <2> QED
      BY <1>5, <1>6, <2>1 DEF ReplyOf
  <1>8. Bus!Answer[asking[w]] = Answer(asking[w])
    BY <1>3 DEF Bus!Answer, Answer
  <1> QED
    BY <1>3, <1>4, <1>7, <1>8 DEF Bus!Serve, ReplyOf

LEMMA InitMaps == Init => Bus!BusInit
  BY DEF Init, Bus!BusInit, Replied, BodyOf

LEMMA StepMaps == IInv /\ IInv' /\ [Next]_vars => [Bus!BusNext]_(Bus!busVars)
  <1> SUFFICES ASSUME IInv, IInv', [Next]_vars
               PROVE  Bus!BusNext \/ UNCHANGED Bus!busVars
    OBVIOUS
  <1>1. CASE UNCHANGED vars
    BY <1>1, QuietStutters DEF vars, Quiet
  <1>2. ASSUME NEW w \in Worker, NEW q \in Question, Ask(w, q)
        PROVE  Bus!BusNext
    BY <1>2, AskMaps DEF Bus!BusNext
  <1>3. ASSUME NEW w \in Worker, Receive(w) PROVE Bus!BusNext
    BY <1>3, ReceiveMaps DEF Bus!BusNext
  <1>4. ASSUME NEW w \in Worker, BackForward(w) PROVE Bus!BusNext
    BY <1>4, ForwardMaps DEF Bus!BusNext
  <1>5. ASSUME NEW w \in Worker, FrontRecv(w) PROVE Quiet
    <2> PICK m \in messages : m.at = Front /\ Forwards(m, Hand)
      BY <1>5, PlacesDiffer DEF FrontRecv, Forwards, serviceVars
    <2> QED
      BY ForwardsQuiet, PlacesDiffer
  <1>6. ASSUME NEW s \in Service, BackSend(s) PROVE Quiet
    <2> PICK m \in messages : m.at = Hand /\ Forwards(m, In(s))
      BY <1>6, PlacesDiffer DEF BackSend, Given, Forwards, serviceVars
    <2> QED
      BY ForwardsQuiet, PlacesDiffer
  <1>7. ASSUME NEW w \in Worker, NEW s \in Service, Recv(s, w) PROVE Quiet
    <2> PICK m \in messages : m.at = In(s) /\ Forwards(m, Cur(s))
      BY <1>7, PlacesDiffer DEF Recv, Forwards, serviceVars
    <2> QED
      BY ForwardsQuiet, PlacesDiffer
  <1>8. ASSUME NEW w \in Worker, NEW s \in Service, Transmit(s, w) PROVE Quiet
    <2> PICK m \in messages : m.at = Out(s) /\ Forwards(m, Dealer)
      BY <1>8, PlacesDiffer DEF Transmit, Forwards, serviceVars
    <2> QED
      BY ForwardsQuiet, PlacesDiffer
  <1>9. ASSUME NEW s \in Service, Reply(s) PROVE Quiet
    <2> PICK m \in messages :
          /\ m.at = Cur(s) /\ asking' = asking
          /\ messages' = (messages \ {m}) \cup
                {[who |-> m.who, body |-> Answer(m.body), at |-> Out(s)]}
      BY <1>9 DEF Reply
    <2> QED
      BY PlacesDiffer DEF Quiet
  <1>10. ASSUME NEW s \in Service, Die(s) PROVE Quiet
    BY <1>10, PlacesDiffer DEF Die, Held, Quiet, In, Cur, Back
  <1>11. ASSUME NEW s \in Service, Connect(s) \/ ConnMySql(s) PROVE Quiet
    BY <1>11 DEF Connect, ConnMySql, Quiet
  <1>12. ASSUME Poll PROVE Quiet
    BY <1>12 DEF Poll, serviceVars, Quiet
  <1> QED
    BY <1>1, <1>2, <1>3, <1>4, <1>5, <1>6, <1>7, <1>8, <1>9, <1>10, <1>11, <1>12,
       QuietStutters DEF Next, NullMySql, Crash

\* What reaches a worker is the answer to its own question, once: the bus of any
\* size implements RequestReply (ZeroMqUtil.cpp, rrBroker.cpp, rrServer.cpp).
THEOREM BusImplements == Spec => ImplementsRequestReply
  <1> QED
    BY InitIInv, NextIInv, InitMaps, StepMaps, PTL
       DEF Spec, ImplementsRequestReply, Bus!BusSpec
=============================================================================
