------------------------------ MODULE UsbProofs ------------------------------
(***************************************************************************)
(* Theorems about the tools that talk to the sensor, for any number of     *)
(* runs, whatever the ones before were broken off in: which answer is read *)
(* for which command, that a handshake is built from what the sensor has   *)
(* heard and sent, and that a run has so many calls left and no more.      *)
(***************************************************************************)
EXTENDS UsbTools, TLAPS

(* A run in which commands and answers cannot come apart.                  *)
Strict == tool = "nossl" => ~failed

Typed ==
  /\ tool \in {"getver", "nossl", "ssl"} /\ runs \in Nat /\ failed \in BOOLEAN
  /\ pc \in {"send", "recv", "drain", "finally", "off"}
  /\ step \in 1 .. Len(Program[tool])

(* At most one command is under way, the current one, and none is when the *)
(* next is to be sent.                                                     *)
CommandPending == /\ commands # <<>> /\ commands = <<commands[1]>> /\ replies = <<>>
                  /\ commands[1].no = Current /\ commands[1].kind = Kind
                  /\ commands[1].random = Random("client")
ReplyPending == commands = <<>> /\ replies # <<>> /\ replies = <<replies[1]>> /\ replies[1].no = Current
Quiet == commands = <<>> /\ replies = <<>>

OneAtATime ==
  /\ Quiet \/ CommandPending \/ ReplyPending
  /\ pc \in {"send", "drain"} => Quiet

Read1 == /\ pc = "drain" => reply.no = Current
         /\ shown # "nothing" => reply.no = Current /\ pc \in {"finally", "off"}

(* The session's randoms are the ones the sensor has heard, from its hello *)
(* to the end of the session.                                              *)
Heard ==
  /\ ReplyPending /\ replies[1].type = "hello" =>
       /\ heard = <<Random("client"), replies[1].random>>
       /\ tool = "ssl" /\ step = 3
  /\ reply.type = "hello" =>
       /\ heard = <<Random("client"), reply.random>>
       /\ tool = "ssl" /\ step = 4 /\ pc # "drain"
  /\ CommandPending /\ Kind = "flight" /\ reply.type = "hello" =>
       Documented(commands[1].flight)

(* test_nossl.py may have several commands under way, none of a handshake. *)
Plain == [no : Nat \X Nat, kind : {"patch", "read", "config"},
          random : [by : {"client"}, n : Nat], flight : {<<>>}]
NoHandshake == tool = "nossl" =>
  /\ commands \in Seq(Plain)
  /\ replies \in Seq([no : Nat \X Nat, type : {"0x0000", "0x0404"}, random : {NoRandom}])
  /\ reply.type # "hello"

Logged == [dir : {"OUT", "IN01"}, no : Nat \X Nat]
Log ==
  /\ TRAFFIC \in Seq(Logged)
  /\ tool = "ssl" /\ pc = "recv" =>
       TRAFFIC # <<>> /\ TRAFFIC[Len(TRAFFIC)] = [dir |-> "OUT", no |-> Current]
  /\ TrafficPaired

Inv == Typed /\ (Strict => OneAtATime /\ Read1 /\ Heard) /\ NoHandshake /\ Log

-----------------------------------------------------------------------------
(* The tools' programs.                                                    *)
LEMMA Programs ==
  /\ Len(Program["getver"]) = 1 /\ Program["getver"][1] = "version"
  /\ Len(Program["nossl"]) = 3 /\ Program["nossl"][1] = "patch"
  /\ Program["nossl"][2] = "read" /\ Program["nossl"][3] = "config"
  /\ Len(Program["ssl"]) = 4 /\ Program["ssl"][1] = "patch" /\ Program["ssl"][2] = "read"
  /\ Program["ssl"][3] = "hello" /\ Program["ssl"][4] = "flight"
  /\ Tools = {"getver", "nossl", "ssl"} /\ \A t \in Tools : 1 \in 1 .. Len(Program[t])
BY DEF Program, Tools

LEMMA Kinds ==
  ASSUME Typed
  PROVE  /\ step \in Nat /\ step \in 1 .. 4
         /\ tool = "nossl" => Kind \in {"patch", "read", "config"}
         /\ Kind = "hello" => tool = "ssl" /\ step = 3
         /\ Kind = "flight" => tool = "ssl" /\ step = 4
         /\ tool = "ssl" /\ Kind \in {"read", "config"} => step # 3 /\ step # 4
         /\ tool = "ssl" => (step = 3 <=> Kind = "hello")
<1>1. CASE tool = "getver"
  BY <1>1, Programs DEF Typed, Kind
<1>2. CASE tool = "nossl"
  <2>1. step = 1 \/ step = 2 \/ step = 3
    BY <1>2, Programs DEF Typed
  <2>2. step \in 1 .. 4 /\ Kind \in {"patch", "read", "config"}
    BY <1>2, <2>1, Programs DEF Kind
  <2> QED
    BY <1>2, <2>2
<1>3. CASE tool = "ssl"
  BY <1>3, Programs DEF Typed, Kind
<1> QED
  BY <1>1, <1>2, <1>3 DEF Typed

(* A queue that holds one thing at most.                                   *)
LEMMA Single ==
  ASSUME NEW e
  PROVE  /\ Append(<<>>, e) = <<e>>
         /\ Head(<<e>>) = e /\ <<e>>[1] = e /\ Tail(<<e>>) = <<>> /\ <<e>> # <<>>
<1>1. Append(<<>>, e) = <<e>>
  OBVIOUS
<1>2. Head(<<e>>) = e /\ <<e>>[1] = e /\ <<e>> # <<>>
  OBVIOUS
<1>3. Tail(<<e>>) = <<>>
  OBVIOUS
<1> QED
  BY <1>1, <1>2, <1>3

LEMMA Begins == Init => Inv
<1> SUFFICES ASSUME Init PROVE Inv
  OBVIOUS
<1>1. Typed
  BY Programs DEF Init, Typed
<1>2. OneAtATime /\ Read1 /\ Heard
  BY DEF Init, OneAtATime, Quiet, Read1, Heard, ReplyPending, CommandPending, NoReply
<1>3. NoHandshake /\ Log
  BY DEF Init, NoHandshake, NoReply, Log, TrafficPaired
<1> QED
  BY <1>1, <1>2, <1>3 DEF Inv

LEMMA KeepsTyped == Typed /\ [Next]_vars => Typed'
<1> SUFFICES ASSUME Typed, [Next]_vars PROVE Typed'
  OBVIOUS
<1>1. CASE \E t \in Tools : Start(t)
  <2>1. PICK t \in Tools : Start(t)
    BY <1>1
  <2>2. /\ tool' = t /\ runs' = runs + 1 /\ pc' = "send" /\ step' = 1 /\ failed' = FALSE
    BY <2>1 DEF Start
  <2>3. t \in {"getver", "nossl", "ssl"} /\ 1 \in 1 .. Len(Program[t])
    BY Programs
  <2>4. tool' \in {"getver", "nossl", "ssl"} /\ step' \in 1 .. Len(Program[tool'])
    BY <2>2, <2>3
  <2>5. failed' \in BOOLEAN
    BY <2>2
  <2>6. runs' \in Nat
    BY <2>2 DEF Typed
  <2> QED
    BY <2>2, <2>4, <2>5, <2>6 DEF Typed
<1>2. CASE Client
  <2>1. tool' = tool /\ runs' = runs /\ failed' \in BOOLEAN /\ pc' \in {"send", "recv", "drain", "finally", "off"}
    BY <1>2 DEF Client, Write, WriteFails, Read, ReadTimesOut, Drain, DrainTimesOut, Finally, Fail,
               Advance, Typed
  <2>2. step' = step \/ (More /\ step' = step + 1)
    BY <1>2 DEF Client, Write, WriteFails, Read, ReadTimesOut, Drain, DrainTimesOut, Finally, Fail,
               Advance
  <2>3. Len(Program[tool]) \in Nat
    BY Programs DEF Typed
  <2> QED
    BY <2>1, <2>2, <2>3 DEF Typed, More
<1>3. CASE CtrlC \/ Answer \/ UNCHANGED vars
  BY <1>3 DEF CtrlC, Answer, client, vars, Typed
<1> QED
  BY <1>1, <1>2, <1>3 DEF Next

(* A run stays strict or has ceased to be: only the next can begin so.     *)
LEMMA StillStrict ==
  ASSUME Typed, [Next]_vars, Strict', ~\E t \in Tools : Start(t)
  PROVE  /\ Strict /\ UNCHANGED <<tool, runs>>
         /\ Fail => pc' = "finally" /\ UNCHANGED <<step, shown>>
<1>1. UNCHANGED <<tool, runs>>
  BY DEF Next, Client, Write, WriteFails, Read, ReadTimesOut, Drain, DrainTimesOut, Finally,
         CtrlC, Answer, client, vars
<1>2. Fail \/ UNCHANGED failed
  BY DEF Next, Client, Write, WriteFails, Read, ReadTimesOut, Drain, DrainTimesOut, Finally,
         CtrlC, Answer, client, vars
<1>3. Fail => tool # "nossl"
  BY <1>1 DEF Fail, Strict
<1>4. Strict
  BY <1>1, <1>2, <1>3 DEF Strict
<1> QED
  BY <1>1, <1>3, <1>4 DEF Fail, GivesUp

LEMMA Stays ==
  ASSUME UNCHANGED <<tool, runs, step, commands, replies>>, OneAtATime,
         pc' \in {"send", "drain"} => pc \in {"send", "drain"}
  PROVE  OneAtATime'
BY DEF OneAtATime, Quiet, CommandPending, ReplyPending, Current, Kind, Random

LEMMA KeepsOne ==
  ASSUME Typed, Strict => OneAtATime, [Next]_vars, Strict'
  PROVE  OneAtATime'
<1>1. CASE \E t \in Tools : Start(t)
  BY <1>1 DEF Start, Configured, OneAtATime, Quiet
<1> SUFFICES ASSUME ~\E t \in Tools : Start(t) PROVE OneAtATime'
  BY <1>1
<1>2. /\ OneAtATime /\ UNCHANGED <<tool, runs>>
      /\ Fail => pc' = "finally" /\ UNCHANGED <<step, shown>>
  BY StillStrict
<1>3. CASE Write
  <2>1. commands = <<>> /\ replies' = <<>> /\ pc' = "recv" /\ step' = step
    BY <1>2, <1>3 DEF Write, OneAtATime, Quiet
  <2>2. commands' = <<Command>>
    BY <1>3, <2>1, Single DEF Write
  <2>3. Command.no = Current /\ Command.kind = Kind /\ Command.random = Random("client")
    BY DEF Command
  <2>4. commands'[1] = Command /\ commands' # <<>> /\ Current' = Current /\ Kind' = Kind
    BY <2>1, <2>2, <1>2, Single DEF Current, Kind
  <2>5. Random("client")' = Random("client")
    BY <1>2 DEF Random
  <2>6. CommandPending'
    BY <2>1, <2>2, <2>3, <2>4, <2>5 DEF CommandPending
  <2> QED
    BY <2>1, <2>6 DEF OneAtATime
<1>4. CASE WriteFails \/ ReadTimesOut
  BY <1>2, <1>4, Stays DEF WriteFails, ReadTimesOut, sensor
<1>5. CASE Read
  <2>1. commands = <<>> /\ replies = <<replies[1]>>
    BY <1>2, <1>5 DEF Read, OneAtATime, Quiet, CommandPending, ReplyPending
  <2>2. Quiet'
    BY <2>1, <1>5, Single DEF Read, Quiet
  <2> QED
    BY <2>2 DEF OneAtATime
<1>6. CASE Drain \/ DrainTimesOut
  <2>1. Quiet'
    BY <1>2, <1>6 DEF Drain, DrainTimesOut, sensor, OneAtATime, Quiet
  <2> QED
    BY <2>1 DEF OneAtATime
<1>7. CASE CtrlC \/ Finally \/ UNCHANGED vars
  BY <1>2, <1>7, Stays DEF CtrlC, Finally, vars, sensor
<1>8. CASE Answer
  <2>1. CommandPending /\ pc \notin {"send", "drain"}
    BY <1>2, <1>8 DEF Answer, OneAtATime, Quiet, CommandPending, ReplyPending
  <2>2. PICK type, random : replies' = Append(replies, [no |-> Head(commands).no, type |-> type,
                                                       random |-> random])
    BY <1>8 DEF Answer
  <2> DEFINE r == [no |-> commands[1].no, type |-> type, random |-> random]
  <2>3. Head(commands) = commands[1] /\ commands' = <<>>
    BY <1>8, <2>1, Single DEF Answer, CommandPending
  <2>4. replies' = <<r>>
    BY <2>1, <2>2, <2>3, Single DEF CommandPending
  <2>5. r.no = Current /\ Current' = Current
    BY <1>2, <1>8, <2>1 DEF CommandPending, Current, Answer, client
  <2>6. ReplyPending'
    <3> HIDE DEF r
    <3> QED
      BY <2>3, <2>4, <2>5, Single DEF ReplyPending
  <2> QED
    BY <1>8, <2>1, <2>6 DEF OneAtATime, Answer, client
<1> QED
  BY <1>3, <1>4, <1>5, <1>6, <1>7, <1>8 DEF Next, Client

LEMMA KeepsRead ==
  ASSUME Typed, Strict => OneAtATime /\ Read1, [Next]_vars, Strict'
  PROVE  Read1'
<1>1. CASE \E t \in Tools : Start(t)
  BY <1>1 DEF Start, Read1
<1> SUFFICES ASSUME ~\E t \in Tools : Start(t) PROVE Read1'
  BY <1>1
<1>2. /\ OneAtATime /\ Read1 /\ UNCHANGED <<tool, runs>>
      /\ Fail => pc' = "finally" /\ UNCHANGED <<step, shown>>
  BY StillStrict
<1>3. CASE Write
  BY <1>2, <1>3 DEF Write, Read1
<1>4. CASE WriteFails \/ ReadTimesOut
  BY <1>2, <1>4 DEF WriteFails, ReadTimesOut, Read1, Current
<1>5. CASE Read
  <2>1. reply' = replies[1] /\ replies[1].no = Current
    BY <1>2, <1>5 DEF Read, OneAtATime, Quiet, CommandPending, ReplyPending
  <2>2. pc = "recv" /\ shown = "nothing"
    BY <1>2, <1>5 DEF Read, Read1
  <2>3. \/ pc' = "drain" /\ step' = step /\ shown' = shown
        \/ pc' = "send" /\ shown' = shown
        \/ pc' = "finally" /\ step' = step
    BY <1>5 DEF Read, Advance
  <2> QED
    BY <1>2, <2>1, <2>2, <2>3 DEF Read1, Current
<1>6. CASE Drain \/ DrainTimesOut
  <2>1. pc = "drain" /\ shown = "nothing" /\ reply' = reply /\ reply.no = Current
    BY <1>2, <1>6 DEF Drain, DrainTimesOut, Read1
  <2>2. \/ pc' = "drain" /\ step' = step /\ shown' = shown
        \/ pc' = "send" /\ shown' = shown
        \/ pc' = "finally" /\ step' = step
    BY <1>6, <2>1 DEF Drain, DrainTimesOut, Advance
  <2> QED
    BY <1>2, <2>1, <2>2 DEF Read1, Current
<1>7. CASE CtrlC \/ Finally \/ Answer \/ UNCHANGED vars
  BY <1>2, <1>7 DEF CtrlC, Finally, Answer, client, vars, sensor, Read1, Current
<1> QED
  BY <1>3, <1>4, <1>5, <1>6, <1>7 DEF Next, Client

-----------------------------------------------------------------------------
(* The flight that is built from the randoms the sensor has heard.         *)
LEMMA FlightFollows ==
  ASSUME heard = <<Random("client"), reply.random>>
  PROVE  Documented(Flight)
BY DEF Documented, Flight, ssl3_prf, ssl3_finished, SSLState, encrypt_record, Hello

LEMMA KeepsHeard ==
  ASSUME Typed, Strict => OneAtATime /\ Heard, [Next]_vars, Strict'
  PROVE  Heard'
<1>1. CASE \E t \in Tools : Start(t)
  BY <1>1 DEF Start, Configured, Heard, ReplyPending, CommandPending, NoReply
<1> SUFFICES ASSUME ~\E t \in Tools : Start(t) PROVE Heard'
  BY <1>1
<1>2. /\ OneAtATime /\ Heard /\ UNCHANGED <<tool, runs>>
      /\ Fail => pc' = "finally" /\ UNCHANGED <<step, shown>>
  BY StillStrict
<1>3. CASE Write
  <2>1. commands = <<>> /\ UNCHANGED <<step, reply, heard>> /\ pc' = "recv"
    BY <1>2, <1>3 DEF Write, OneAtATime, Quiet
  <2>2. commands' = <<Command>>
    BY <1>3, <2>1, Single DEF Write
  <2>3. commands'[1] = Command /\ commands' # <<>> /\ ~ReplyPending'
    BY <2>2, Single DEF ReplyPending
  <2>4. Random("client")' = Random("client") /\ Kind' = Kind
    BY <1>2, <2>1 DEF Random, Kind
  <2>5. Kind = "flight" /\ reply.type = "hello" => Documented(Command.flight)
    BY <1>2, FlightFollows DEF Command, Heard
  <2> QED
    BY <1>2, <2>1, <2>3, <2>4, <2>5 DEF Heard, Documented
<1>4. CASE WriteFails \/ ReadTimesOut \/ CtrlC \/ Finally \/ UNCHANGED vars
  <2>1. UNCHANGED <<step, reply, commands, replies, heard>> /\ pc' \in {"finally", "off", pc}
    BY <1>2, <1>4 DEF WriteFails, ReadTimesOut, CtrlC, Finally, vars, sensor
  <2> QED
    BY <1>2, <2>1 DEF Heard, ReplyPending, CommandPending, Random, Kind, Current, Documented
<1>5. CASE Read
  <2>1. ReplyPending /\ reply' = replies[1] /\ UNCHANGED <<commands, heard>>
    BY <1>2, <1>5 DEF Read, OneAtATime, Quiet, CommandPending, ReplyPending
  <2>2. commands' = <<>> /\ replies' = <<>>
    BY <2>1, <1>5, Single DEF Read, ReplyPending
  <2>3. replies[1].type = "hello" => step' = 4 /\ pc' = "send"
    BY <2>1, <1>2, <1>5, Kinds, Programs DEF Heard, Read, Advance, More
  <2> QED
    BY <1>2, <2>1, <2>2, <2>3 DEF Heard, ReplyPending, CommandPending, Random
<1>6. CASE Drain \/ DrainTimesOut
  <2>1. commands' = <<>> /\ replies' = <<>> /\ reply' = reply /\ pc = "drain"
    BY <1>2, <1>6 DEF Drain, DrainTimesOut, sensor, OneAtATime, Quiet
  <2> QED
    BY <1>2, <2>1 DEF Heard, ReplyPending, CommandPending
<1>7. CASE Answer
  <2>1. CommandPending /\ UNCHANGED client
    BY <1>2, <1>7 DEF Answer, OneAtATime, Quiet, CommandPending, ReplyPending
  <2> DEFINE c == commands[1]
             own == [by |-> "sensor", n |-> c.no[1]]
  <2>2. Head(commands) = c /\ commands' = <<>>
    BY <1>7, <2>1, Single DEF Answer, CommandPending
  <2>3. PICK type \in Answers(c) :
          /\ replies' = Append(replies, [no |-> c.no, type |-> type,
                          random |-> IF type = "hello" THEN own ELSE NoRandom])
          /\ heard' = IF type = "hello" THEN <<c.random, own>> ELSE heard
    BY <1>7, <2>2 DEF Answer
  <2> DEFINE r == [no |-> c.no, type |-> type,
                   random |-> IF type = "hello" THEN own ELSE NoRandom]
  <2>4. replies' = <<r>>
    BY <2>1, <2>3, Single DEF CommandPending
  <2>5. type = "hello" => tool = "ssl" /\ step = 3
    BY <2>1, <2>3, Kinds DEF Answers, CommandPending
  <2>6. replies'[1].type = type /\ (type = "hello" => replies'[1].random = own)
    BY <2>4, Single
  <2>7. type = "hello" => heard' = <<Random("client"), replies'[1].random>>
    BY <2>1, <2>3, <2>6 DEF CommandPending
  <2>8. type # "hello" => heard' = heard
    BY <2>3
  <2> HIDE DEF c, own, r
  <2> QED
    BY <1>2, <2>1, <2>2, <2>5, <2>6, <2>7, <2>8 DEF Heard, CommandPending, Random, client
<1> QED
  BY <1>3, <1>4, <1>5, <1>6, <1>7 DEF Next, Client

(* test_nossl.py has said no hello, and there is none to answer.           *)
LEMMA KeepsNoHandshake ==
  ASSUME Typed, NoHandshake, [Next]_vars
  PROVE  NoHandshake'
<1>1. CASE \E t \in Tools : Start(t)
  BY <1>1 DEF Start, Configured, NoHandshake, NoReply
<1>2. CASE ~(\E t \in Tools : Start(t)) /\ tool = "nossl"
  <2> DEFINE Status == [no : Nat \X Nat, type : {"0x0000", "0x0404"}, random : {NoRandom}]
  <2>1. commands \in Seq(Plain) /\ replies \in Seq(Status) /\ reply.type # "hello"
    BY <1>2 DEF NoHandshake
  <2> HIDE DEF Status
  <2>2. CASE Write
    <3>1. Command \in Plain
      BY <1>2, Kinds DEF Command, Plain, Current, Random, Typed
    <3>2. commands' \in Seq(Plain) /\ replies' = replies /\ reply' = reply
      BY <2>1, <2>2, <3>1 DEF Write
    <3> QED
      BY <2>1, <3>2 DEF NoHandshake, Status
  <2>3. CASE Read
    <3>1. replies' \in Seq(Status) /\ reply' \in Status /\ commands' = commands
      BY <2>1, <2>3 DEF Read
    <3> QED
      BY <2>1, <3>1 DEF NoHandshake, Status
  <2>4. CASE Answer
    <3> DEFINE c == Head(commands)
    <3>1. c \in Plain /\ commands' \in Seq(Plain)
      BY <2>1, <2>4 DEF Answer
    <3>2. c.no \in Nat \X Nat /\ Answers(c) = {"0x0000", "0x0404"}
      BY <3>1 DEF Answers, Plain
    <3>3. PICK r : r \in Status /\ replies' = Append(replies, r)
      BY <2>4, <3>2 DEF Answer, Status
    <3>4. replies' \in Seq(Status)
      BY <2>1, <3>3
    <3> QED
      BY <2>1, <2>4, <3>1, <3>4 DEF NoHandshake, Status, Answer, client
  <2>5. CASE WriteFails \/ ReadTimesOut \/ Drain \/ DrainTimesOut \/ CtrlC \/ Finally \/ UNCHANGED vars
    <3>1. UNCHANGED <<commands, replies, reply>>
      BY <2>5 DEF WriteFails, ReadTimesOut, Drain, DrainTimesOut, CtrlC, Finally, sensor, vars
    <3> QED
      BY <2>1, <3>1 DEF NoHandshake, Status
  <2> QED
    BY <1>2, <2>2, <2>3, <2>4, <2>5 DEF Next, Client
<1>3. CASE ~(\E t \in Tools : Start(t)) /\ tool # "nossl"
  <2>1. tool' = tool
    BY <1>3 DEF Next, Client, Write, WriteFails, Read, ReadTimesOut, Drain, DrainTimesOut, Finally,
                CtrlC, Answer, client, vars
  <2> QED
    BY <1>3, <2>1 DEF NoHandshake
<1> QED
  BY <1>1, <1>2, <1>3

-----------------------------------------------------------------------------
(* One more entry in the log.                                              *)
LEMMA Entry ==
  ASSUME TRAFFIC \in Seq(Logged), TrafficPaired, NEW e \in Logged, TRAFFIC' = Append(TRAFFIC, e),
         e.dir = "IN01" =>
           TRAFFIC # <<>> /\ TRAFFIC[Len(TRAFFIC)] = [dir |-> "OUT", no |-> e.no]
  PROVE  /\ TRAFFIC' \in Seq(Logged) /\ TrafficPaired'
         /\ TRAFFIC' # <<>> /\ TRAFFIC'[Len(TRAFFIC')] = e
<1>1. /\ TRAFFIC' \in Seq(Logged) /\ Len(TRAFFIC') = Len(TRAFFIC) + 1 /\ Len(TRAFFIC) \in Nat
      /\ TRAFFIC'[Len(TRAFFIC) + 1] = e /\ \A k \in 1 .. Len(TRAFFIC) : TRAFFIC'[k] = TRAFFIC[k]
  OBVIOUS
<1>2. ASSUME NEW k \in 1 .. Len(TRAFFIC'), TRAFFIC'[k].dir = "IN01"
      PROVE  k > 1 /\ TRAFFIC'[k - 1] = [dir |-> "OUT", no |-> TRAFFIC'[k].no]
  <2>1. CASE k = Len(TRAFFIC) + 1
    <3>1. Len(TRAFFIC) > 0 /\ TRAFFIC'[k].no = e.no
      BY <1>1, <1>2, <2>1
    <3>2. k - 1 \in 1 .. Len(TRAFFIC) /\ k - 1 = Len(TRAFFIC)
      BY <1>1, <2>1, <3>1
    <3> QED
      BY <1>1, <1>2, <2>1, <3>1, <3>2
  <2>2. CASE k \in 1 .. Len(TRAFFIC)
    <3>1. k > 1 /\ TRAFFIC[k - 1] = [dir |-> "OUT", no |-> TRAFFIC[k].no]
      BY <1>1, <1>2, <2>2 DEF TrafficPaired
    <3> QED
      BY <1>1, <2>2, <3>1
  <2> QED
    BY <1>1, <2>1, <2>2
<1> QED
  BY <1>1, <1>2 DEF TrafficPaired

LEMMA KeepsLog ==
  ASSUME Typed, Strict => OneAtATime, Log, [Next]_vars
  PROVE  Log'
<1>1. CASE \E t \in Tools : Start(t)
  BY <1>1 DEF Start, Log, TrafficPaired
<1>2. CASE (Write \/ WriteFails) /\ tool = "ssl"
  <2> DEFINE e == [dir |-> "OUT", no |-> Current]
  <2>1. TRAFFIC' = Append(TRAFFIC, e) /\ UNCHANGED <<tool, runs>>
    BY <1>2 DEF Write, WriteFails, Note
  <2>2. e \in Logged
    BY DEF Logged, Current, Typed
  <2>3. /\ TRAFFIC' \in Seq(Logged) /\ TrafficPaired'
        /\ TRAFFIC' # <<>> /\ TRAFFIC'[Len(TRAFFIC')] = e
    BY <2>1, <2>2, Entry DEF Log
  <2>4. pc' = "recv" => step' = step
    BY <1>2 DEF Write, WriteFails, Fail
  <2> QED
    BY <2>1, <2>3, <2>4 DEF Log, Current
<1>3. CASE Read /\ tool = "ssl"
  <2> DEFINE e == [dir |-> "IN01", no |-> Current]
  <2>1. Head(replies).no = Current
    BY <1>3 DEF Strict, Read, OneAtATime, Quiet, CommandPending, ReplyPending
  <2>2. TRAFFIC' = Append(TRAFFIC, e)
    BY <1>3, <2>1 DEF Read, Note
  <2>3. e \in Logged
    BY DEF Logged, Current, Typed
  <2>4. TRAFFIC # <<>> /\ TRAFFIC[Len(TRAFFIC)] = [dir |-> "OUT", no |-> Current]
    BY <1>3 DEF Log, Read
  <2>5. TRAFFIC' \in Seq(Logged) /\ TrafficPaired'
    BY <2>2, <2>3, <2>4, Entry DEF Log
  <2>6. pc' # "recv"
    BY <1>3 DEF Read, Advance
  <2> QED
    BY <2>5, <2>6 DEF Log
<1>4. CASE (Write \/ WriteFails \/ Read) /\ tool # "ssl"
  BY <1>4 DEF Write, WriteFails, Read, Note, Log, TrafficPaired
<1>5. CASE Drain \/ DrainTimesOut \/ ReadTimesOut
  <2>1. UNCHANGED TRAFFIC /\ pc' # "recv"
    BY <1>5 DEF Drain, DrainTimesOut, ReadTimesOut, Fail, Advance
  <2> QED
    BY <2>1 DEF Log, TrafficPaired
<1>6. CASE CtrlC \/ Finally \/ Answer \/ UNCHANGED vars
  BY <1>6 DEF CtrlC, Finally, Answer, client, vars, Log, TrafficPaired, Current
<1> QED
  BY <1>1, <1>2, <1>3, <1>4, <1>5, <1>6 DEF Next, Client

-----------------------------------------------------------------------------
(* The inductive invariant.                                                *)
THEOREM Invariance == Spec => []Inv
<1>1. Inv /\ [Next]_vars => Inv'
  BY KeepsTyped, KeepsOne, KeepsRead, KeepsHeard, KeepsNoHandshake, KeepsLog DEF Inv
<1> QED
  BY <1>1, Begins, PTL DEF Spec

(* A tool speaks of the sensor's answer to the command it means, unless    *)
(* test_nossl.py has gone on after an error.                               *)
THEOREM Pairing == Spec => []AnswerIsOwn
<1>1. Inv => AnswerIsOwn
  BY DEF Inv, Strict, Read1, AnswerIsOwn
<1> QED
  BY <1>1, Invariance, PTL

(* A flight that follows the sensor's hello is the documented one, for the *)
(* randoms of that session; whether the sensor accepts it is not said.     *)
THEOREM Derivation == Spec => []FlightDocumented
<1>1. Inv => FlightDocumented
  <2> SUFFICES ASSUME Inv, NEW k \in 1 .. Len(commands), commands[k].kind = "flight",
                      reply.type = "hello"
               PROVE  Documented(commands[k].flight)
    BY DEF FlightDocumented
  <2>1. tool # "nossl"
    <3>1. SUFFICES ASSUME tool = "nossl" PROVE FALSE
      OBVIOUS
    <3>2. commands[k] \in Plain
      BY <3>1 DEF Inv, NoHandshake
    <3> QED
      BY <3>2 DEF Plain
  <2>2. OneAtATime /\ Heard
    BY <2>1 DEF Inv, Strict
  <2>3. commands # <<>>
    OBVIOUS
  <2>4. CommandPending
    BY <2>2, <2>3 DEF OneAtATime, Quiet, ReplyPending
  <2>5. PICK c : commands = <<c>>
    BY <2>4 DEF CommandPending
  <2>6. k = 1
    BY <2>5
  <2> QED
    BY <2>2, <2>4, <2>6 DEF Heard, CommandPending
<1> QED
  BY <1>1, Invariance, PTL

(* The log of a session pairs each answer with its command.                *)
THEOREM Logging == Spec => []TrafficPaired
<1>1. Inv => TrafficPaired
  BY DEF Inv, Log
<1> QED
  BY <1>1, Invariance, PTL

-----------------------------------------------------------------------------
(* Typing.  A command carries a random and perhaps a flight, whose keys    *)
(* and hashes are tuples of randoms.                                       *)
Masters == Randoms \X Randoms \X Randoms
Keyblocks == Masters \X Randoms \X Randoms
Bodies == Masters \X Masters
Flights == [premaster : Randoms,
            finished : [key : Keyblocks \X {"ckey"}, iv : Keyblocks \X {"civ"}, body : Bodies,
                        mac : (Keyblocks \X {"cmac"}) \X {0} \X Bodies]]
Commands == [no : Numbers, kind : {"version", "patch", "read", "config", "hello", "flight"},
             random : Randoms, flight : Flights \cup {<<>>}]
Verdicts == {"nothing", "version", "DENIED", "ACCEPTED", "HANDSHAKE OK", "ALERT"}

Bounded ==
  /\ runs \in 0 .. MaxRuns /\ reply \in Replies /\ shown \in Verdicts
  /\ TRAFFIC \in Seq([dir : {"OUT", "IN01"}, no : Numbers])

Queues ==
  /\ commands \in Seq(Commands) /\ replies \in Seq(Replies)
  /\ data \in Seq({"full", "short"}) /\ (heard = <<>> \/ heard \in Randoms \X Randoms)

LEMMA RandomsTyped ==
  ASSUME runs \in 0 .. MaxRuns
  PROVE  /\ Random("client") \in Randoms /\ Random("premaster") \in Randoms
         /\ NoRandom \in Randoms /\ NoReply \in Replies
<1>1. 0 \in 0 .. MaxRuns /\ 0 \in 0 .. 4
  BY RunsAssumption
<1>2. NoRandom \in Randoms
  BY <1>1 DEF NoRandom, Randoms
<1>3. NoReply \in Replies
  BY <1>1, <1>2 DEF NoReply, Replies, Numbers
<1>4. Random("client") \in Randoms /\ Random("premaster") \in Randoms
  BY DEF Random, Randoms
<1> QED
  BY <1>2, <1>3, <1>4

LEMMA CommandTyped ==
  ASSUME Typed, Bounded
  PROVE  Current \in Numbers /\ Command \in Commands
<1>1. Current \in Numbers
  BY Kinds DEF Current, Numbers, Bounded
<1>2. Kind \in {"version", "patch", "read", "config", "hello", "flight"}
  <2>1. CASE tool = "getver"
    BY <2>1, Programs DEF Typed, Kind
  <2>2. CASE tool = "nossl"
    BY <2>2, Kinds
  <2>3. CASE tool = "ssl"
    BY <2>3, Programs DEF Typed, Kind
  <2> QED
    BY <2>1, <2>2, <2>3 DEF Typed
<1>3. Flight \in Flights
  <2> DEFINE master   == <<Random("premaster"), Random("client"), reply.random>>
             keyblock == <<master, reply.random, Random("client")>>
             body     == <<master, <<Random("client"), reply.random, Random("premaster")>>>>
  <2>1. /\ Random("client") \in Randoms /\ Random("premaster") \in Randoms
        /\ reply.random \in Randoms
    BY RandomsTyped DEF Bounded, Replies
  <2>2. master \in Masters
    BY <2>1 DEF Masters
  <2>3. keyblock \in Keyblocks
    BY <2>1, <2>2 DEF Keyblocks
  <2>4. body \in Bodies
    BY <2>1, <2>2 DEF Bodies, Masters
  <2>5. Flight = [premaster |-> Random("premaster"),
                  finished  |-> [key |-> <<keyblock, "ckey">>, iv |-> <<keyblock, "civ">>,
                                 body |-> body, mac |-> <<<<keyblock, "cmac">>, 0, body>>]]
    BY DEF Flight, ssl3_prf, ssl3_finished, SSLState, encrypt_record, Hello
  <2> HIDE DEF master, keyblock, body
  <2> QED
    BY <2>1, <2>3, <2>4, <2>5 DEF Flights
<1>4. Random("client") \in Randoms
  BY RandomsTyped DEF Bounded
<1> QED
  BY <1>1, <1>2, <1>3, <1>4 DEF Command, Commands

LEMMA KeepsBounded == Typed /\ Bounded /\ Queues /\ [Next]_vars => Bounded'
<1> SUFFICES ASSUME Typed, Bounded, Queues, [Next]_vars PROVE Bounded'
  OBVIOUS
<1> DEFINE Entries == [dir : {"OUT", "IN01"}, no : Numbers]
<1>1. CASE \E t \in Tools : Start(t)
  <2>1. /\ runs < MaxRuns /\ runs' = runs + 1 /\ reply' = NoReply /\ shown' = "nothing"
        /\ TRAFFIC' = <<>>
    BY <1>1 DEF Start
  <2>2. runs' \in 0 .. MaxRuns /\ NoReply \in Replies
    BY <2>1, RunsAssumption, RandomsTyped DEF Bounded
  <2>3. TRAFFIC' \in Seq(Entries)
    <3> HIDE DEF Entries
    <3> QED
      BY <2>1
  <2> QED
    BY <2>1, <2>2, <2>3 DEF Bounded, Verdicts
<1>2. CASE Client \/ CtrlC \/ Answer \/ UNCHANGED vars
  <2>1. runs' = runs
    BY <1>2 DEF Client, Write, WriteFails, Read, ReadTimesOut, Drain, DrainTimesOut, Finally, CtrlC,
                Answer, client, vars
  <2>2. reply' = reply \/ (Read /\ reply' = Head(replies))
    BY <1>2 DEF Client, Write, WriteFails, Read, ReadTimesOut, Drain, DrainTimesOut, Finally, CtrlC,
                Answer, client, vars
  <2>3. shown' = shown \/ \E r : shown' = Verdict(r)
    BY <1>2 DEF Client, Write, WriteFails, Read, ReadTimesOut, Drain, DrainTimesOut, Finally, CtrlC,
                Answer, client, vars, Fail, Advance
  <2>4. \/ TRAFFIC' = TRAFFIC
        \/ Note("OUT", Current)
        \/ Read /\ Note("IN01", Head(replies).no)
    BY <1>2 DEF Client, Write, WriteFails, Read, ReadTimesOut, Drain, DrainTimesOut, Finally, CtrlC,
                Answer, client, vars
  <2>5. Read => Head(replies) \in Replies /\ Head(replies).no \in Numbers
    <3>1. Read => Head(replies) \in Replies
      BY DEF Read, Queues
    <3>2. \A e \in Replies : e.no \in Numbers
      BY DEF Replies
    <3> QED
      BY <3>1, <3>2
  <2>6. \A r : Verdict(r) \in Verdicts
    BY DEF Verdict, Verdicts
  <2>7. TRAFFIC' \in Seq(Entries)
    <3>1. TRAFFIC \in Seq(Entries)
      BY DEF Bounded
    <3>2. \A no \in Numbers : /\ [dir |-> "OUT", no |-> no] \in Entries
                              /\ [dir |-> "IN01", no |-> no] \in Entries
      OBVIOUS
    <3>3. TRAFFIC' = TRAFFIC \/ \E e \in Entries : TRAFFIC' = Append(TRAFFIC, e)
      BY <2>4, <2>5, <3>2, CommandTyped DEF Note
    <3> HIDE DEF Entries
    <3> QED
      BY <3>1, <3>3
  <2> QED
    BY <2>1, <2>2, <2>3, <2>5, <2>6, <2>7 DEF Bounded
<1> QED
  BY <1>1, <1>2 DEF Next

LEMMA KeepsQueues == Typed /\ Bounded /\ Queues /\ [Next]_vars => Queues'
<1> SUFFICES ASSUME Typed, Bounded, Queues, [Next]_vars PROVE Queues'
  OBVIOUS
<1> USE DEF Queues
<1>1. CASE \E t \in Tools : Start(t)
  BY <1>1 DEF Start, Configured
<1>2. CASE Write
  <2>1. commands' \in Seq(Commands)
    BY <1>2, CommandTyped DEF Write
  <2> QED
    BY <1>2, <2>1 DEF Write
<1>3. CASE WriteFails \/ ReadTimesOut \/ DrainTimesOut \/ CtrlC \/ Finally \/ UNCHANGED vars
  BY <1>3 DEF WriteFails, ReadTimesOut, DrainTimesOut, CtrlC, Finally, sensor, vars
<1>4. CASE Read
  BY <1>4 DEF Read
<1>5. CASE Drain
  BY <1>5 DEF Drain
<1>6. CASE Answer
  <2> DEFINE c == Head(commands)
             own == [by |-> "sensor", n |-> c.no[1]]
  <2>1. c \in Commands /\ commands' \in Seq(Commands)
    BY <1>6 DEF Answer
  <2>2. c.no \in Numbers /\ c.random \in Randoms /\ c.no[1] \in 0 .. MaxRuns
    BY <2>1 DEF Commands, Numbers
  <2>3. own \in Randoms /\ NoRandom \in Randoms
    BY <2>2, RandomsTyped DEF Randoms, Bounded
  <2>4. PICK type \in Answers(c), packets \in Packets(c) :
          /\ replies' = Append(replies, [no |-> c.no, type |-> type,
                          random |-> IF type = "hello" THEN own ELSE NoRandom])
          /\ heard' = IF type = "hello" THEN <<c.random, own>> ELSE heard
          /\ data' = data \o packets
    BY <1>6 DEF Answer
  <2>5. type \in {"0x0000", "0x0404", "hello", "alert", "finished"}
    BY <2>4 DEF Answers
  <2>6. packets \in Seq({"full", "short"})
    <3>1. packets \in {<<>>, <<"short">>, <<"full">>, <<"full", "short">>}
      BY <2>4 DEF Packets
    <3>2. <<>> \in Seq({"full", "short"}) /\ <<"short">> \in Seq({"full", "short"})
      OBVIOUS
    <3>3. <<"full">> \in Seq({"full", "short"}) /\ <<"full", "short">> \in Seq({"full", "short"})
      OBVIOUS
    <3> QED
      BY <3>1, <3>2, <3>3
  <2> HIDE DEF c, own
  <2>7. data' \in Seq({"full", "short"})
    BY <2>4, <2>6
  <2>8. heard' = <<>> \/ heard' \in Randoms \X Randoms
    BY <2>2, <2>3, <2>4
  <2> DEFINE r == [no |-> c.no, type |-> type,
                   random |-> IF type = "hello" THEN own ELSE NoRandom]
  <2>9. r \in Replies /\ replies' = Append(replies, r)
    BY <2>2, <2>3, <2>4, <2>5 DEF Replies
  <2>10. replies' \in Seq(Replies)
    <3> HIDE DEF r
    <3> QED
      BY <2>9
  <2> QED
    BY <2>1, <2>7, <2>8, <2>10
<1> QED
  BY <1>1, <1>2, <1>3, <1>4, <1>5, <1>6 DEF Next, Client

LEMMA Bounding == Spec => [](Bounded /\ Queues)
<1>1. Init => Bounded /\ Queues
  <2> SUFFICES ASSUME Init PROVE Bounded /\ Queues
    OBVIOUS
  <2>1. runs \in 0 .. MaxRuns
    BY RunsAssumption DEF Init
  <2> QED
    BY <2>1, RandomsTyped DEF Init, Bounded, Queues, Verdicts
<1>2. Inv /\ Bounded /\ Queues /\ [Next]_vars => (Bounded /\ Queues)'
  BY KeepsBounded, KeepsQueues DEF Inv
<1> QED
  BY <1>1, <1>2, Invariance, PTL DEF Spec

(* The state of tools and sensor stays typed, whatever is broken off: no   *)
(* tool runs past its program, and every number that is read is one of a   *)
(* command that was written.                                               *)
THEOREM Typing == Spec => []TypeOK
<1>1. Inv /\ Bounded /\ Queues => TypeOK
  <2> SUFFICES ASSUME Inv, Bounded, Queues PROVE TypeOK
    OBVIOUS
  <2>1. \A k \in 1 .. Len(commands) : commands[k].no \in Numbers
    <3>1. \A k \in 1 .. Len(commands) : commands[k] \in Commands
      BY DEF Queues
    <3>2. \A c \in Commands : c.no \in Numbers
      BY DEF Commands
    <3> QED
      BY <3>1, <3>2
  <2>2. tool \in Tools
    BY Programs DEF Inv, Typed
  <2> QED
    BY <2>1, <2>2 DEF TypeOK, Inv, Typed, Bounded, Queues, Verdicts
<1> QED
  BY <1>1, Invariance, Bounding, PTL

-----------------------------------------------------------------------------
(* The calls a tool has before it, at most: those of the command at hand,  *)
(* of the commands left in its program, and one for each packet of data    *)
(* that the sensor has sent or may yet send, two for a command that it has *)
(* not answered.                                                           *)
Call(p) == IF p = "send" THEN 7 ELSE IF p = "recv" THEN 4 ELSE
           IF p = "drain" THEN 3 ELSE IF p = "finally" THEN 1 ELSE 0
Later == Len(Program[tool]) - step
Packages == Len(data) + 2 * Len(commands)
Left == Call(pc) + 8 * Later + Packages

LeftOK == Left \in Nat
LeftShrinks ==
  /\ Client => Left' < Left
  /\ pc # "off" => Left' <= Left
  /\ pc = "off" /\ pc' # "off" => Left' <= 31

(* The next command's call, with one command fewer after it, is worth less *)
(* than the read or the drain before it: the sum Left counts with.         *)
LEMMA CallShorter ==
  ASSUME NEW l \in Nat, NEW p \in Nat, NEW q \in Nat, q <= p
  PROVE  /\ 7 + 8 * (l - 1) + q < 3 + 8 * l + p
         /\ 7 + 8 * (l - 1) + q < 4 + 8 * l + p
OBVIOUS

(* A tool makes 31 calls at most and lets go of the sensor: every call     *)
(* leaves fewer to make, and nothing the sensor does leaves more, however  *)
(* many packets it sends.  ToolEnds rests on this and on the timeouts.     *)
THEOREM CallsBounded == Spec => []LeftOK /\ [][LeftShrinks]_vars
<1>0. Call("send") = 7 /\ Call("recv") = 4 /\ Call("drain") = 3 /\ Call("finally") = 1
      /\ Call("off") = 0 /\ Call(pc) \in 0 .. 7
  BY DEF Call
<1>1. Typed => Later \in 0 .. 3
  <2> SUFFICES ASSUME Typed PROVE Later \in 0 .. 3
    OBVIOUS
  <2>1. PICK n \in 1 .. 4 : Len(Program[tool]) = n
    BY Programs DEF Typed
  <2> QED
    BY <2>1 DEF Typed, Later
<1>2. Queues => Packages \in Nat /\ Len(data) \in Nat /\ Len(commands) \in Nat
  BY DEF Queues, Packages
<1>3. Typed /\ Queues => LeftOK
  <2> SUFFICES ASSUME Typed, Queues PROVE LeftOK
    OBVIOUS
  <2>1. Call(pc) \in Nat
    BY <1>0
  <2>2. Later \in Nat /\ Packages \in Nat
    BY <1>1, <1>2
  <2> QED
    BY <2>1, <2>2 DEF LeftOK, Left
<1>4. ASSUME Typed, Queues, More, tool' = tool, step' = step + 1 PROVE Later' = Later - 1
  <2>1. PICK n \in 1 .. 4 : Len(Program[tool]) = n
    BY <1>4, Programs DEF Typed
  <2> QED
    BY <1>4, <2>1 DEF Typed, Later
<1>5. ASSUME tool' = tool, step' = step PROVE Later' = Later
  BY <1>5 DEF Later
<1>6. ASSUME data' = data, commands' = commands PROVE Packages' = Packages
  BY <1>6 DEF Packages
<1>7. ASSUME Typed, Queues, Client PROVE Left' < Left
  <2>0. /\ Later \in 0 .. 3 /\ Packages \in Nat /\ Len(data) \in Nat /\ Len(commands) \in Nat
        /\ tool' = tool
    BY <1>1, <1>2, <1>7 DEF Client, Write, WriteFails, Read, ReadTimesOut, Drain, DrainTimesOut,
                            Finally
  <2>1. CASE Write
    <3>1. Len(commands') = Len(commands) + 1
      BY <1>7, <2>1 DEF Write, Queues
    <3>2. Packages' = Packages + 2
      BY <2>0, <2>1, <3>1 DEF Write, Packages
    <3>3. pc = "send" /\ pc' = "recv" /\ Later' = Later
      BY <1>5, <2>1 DEF Write
    <3> QED
      BY <1>0, <2>0, <3>2, <3>3 DEF Left
  <2>2. ASSUME NEW r, pc \in {"recv", "drain"}, Advance(r), Packages' \in Nat, Packages' <= Packages
        PROVE  Left' < Left
    <3>1. \/ pc' = "send" /\ Later' = Later - 1
          \/ pc' = "finally" /\ Later' = Later
      BY <1>4, <1>5, <1>7, <2>0, <2>2 DEF Advance
    <3>2. Call(pc) \in {3, 4}
      BY <1>0, <2>2
    <3>3. \/ Call(pc') = 7 /\ Later' = Later - 1
          \/ Call(pc') = 1 /\ Later' = Later
      BY <1>0, <3>1
    <3>4. Packages' \in Nat /\ Packages' <= Packages
      BY <2>2
    <3>5. CASE Call(pc') = 7 /\ Later' = Later - 1
      <4>1. PICK l \in Nat : Later = l
        BY <2>0
      <4>2. PICK p \in Nat, q \in Nat : p = Packages /\ q = Packages' /\ q <= p
        BY <2>0, <3>4
      <4>3. 7 + 8 * (l - 1) + q < 3 + 8 * l + p
        BY <4>2, CallShorter
      <4>4. 7 + 8 * (l - 1) + q < 4 + 8 * l + p
        BY <4>2, CallShorter
      <4> QED
        BY <3>2, <3>5, <4>1, <4>2, <4>3, <4>4 DEF Left
    <3>6. CASE Call(pc') = 1 /\ Later' = Later
      BY <2>0, <3>2, <3>4, <3>6 DEF Left
    <3> QED
      BY <3>3, <3>5, <3>6
  <2>3. CASE WriteFails \/ ReadTimesOut
    <3>1. \/ pc' = "send" /\ Later' = Later - 1
          \/ pc' = "finally" /\ Later' = Later
      BY <1>4, <1>5, <1>7, <2>0, <2>3 DEF WriteFails, ReadTimesOut, Fail
    <3>2. pc \in {"send", "recv"} /\ Packages' = Packages
      BY <1>6, <2>3 DEF WriteFails, ReadTimesOut, sensor
    <3> QED
      BY <1>0, <2>0, <3>1, <3>2 DEF Left
  <2>4. CASE Read
    <3>1. pc = "recv" /\ Packages' = Packages
      BY <1>6, <2>4 DEF Read
    <3>2. CASE pc' = "drain" /\ step' = step
      BY <1>0, <1>5, <2>0, <3>1, <3>2 DEF Left
    <3>3. CASE Advance(Head(replies))
      BY <2>0, <2>2, <3>1, <3>3
    <3> QED
      BY <2>4, <3>2, <3>3 DEF Read
  <2>5. CASE Drain
    <3>1. Len(data') = Len(data) - 1 /\ pc = "drain"
      BY <1>7, <2>5 DEF Drain, Queues
    <3>2. Packages' = Packages - 1
      BY <2>0, <2>5, <3>1 DEF Drain, Packages
    <3>3. Len(data) > 0
      BY <1>7, <2>5 DEF Drain, Queues
    <3>4. Packages > 0
      BY <2>0, <3>3 DEF Packages
    <3>5. CASE Advance(reply)
      BY <2>0, <2>2, <3>1, <3>2, <3>4, <3>5
    <3>6. CASE pc' = pc /\ step' = step
      BY <1>0, <1>5, <2>0, <3>1, <3>2, <3>6 DEF Left
    <3> QED
      BY <2>5, <3>5, <3>6 DEF Drain
  <2>6. CASE DrainTimesOut
    BY <1>6, <2>0, <2>2, <2>6 DEF DrainTimesOut, sensor
  <2>7. CASE Finally
    <3>1. pc = "finally" /\ pc' = "off" /\ Later' = Later /\ Packages' = Packages
      BY <1>5, <1>6, <2>7 DEF Finally, sensor
    <3> QED
      BY <1>0, <2>0, <3>1 DEF Left
  <2> QED
    BY <1>7, <2>1, <2>3, <2>4, <2>5, <2>6, <2>7 DEF Client
<1>8. ASSUME Typed, Queues, Answer PROVE Left' <= Left
  <2>0. Later \in 0 .. 3 /\ Packages \in Nat /\ Len(data) \in Nat /\ Len(commands) \in Nat
    BY <1>1, <1>2, <1>8
  <2>1. Len(commands') = Len(commands) - 1
    BY <1>8 DEF Answer, Queues
  <2>2. PICK packets \in Packets(Head(commands)) : data' = data \o packets
    BY <1>8 DEF Answer
  <2>3. packets \in {<<>>, <<"short">>, <<"full">>, <<"full", "short">>}
    BY <2>2 DEF Packets
  <2>4. Len(data') \in Nat /\ Len(data') <= Len(data) + 2
    <3> DEFINE S == {"full", "short"}
    <3>1. data \in Seq(S)
      BY <1>8 DEF Queues
    <3>2. packets \in Seq(S) /\ Len(packets) \in Nat /\ Len(packets) <= 2
      <4>1. CASE packets = <<>>
        BY <4>1
      <4>2. CASE packets = <<"short">>
        BY <4>2
      <4>3. CASE packets = <<"full">>
        BY <4>3
      <4>4. CASE packets = <<"full", "short">>
        BY <4>4
      <4> QED
        BY <2>3, <4>1, <4>2, <4>3, <4>4
    <3> HIDE DEF S
    <3>3. Len(data \o packets) = Len(data) + Len(packets)
      BY <3>1, <3>2
    <3> QED
      BY <2>0, <2>2, <3>2, <3>3
  <2>5. Packages' \in Nat /\ Packages' <= Packages
    BY <2>0, <2>1, <2>4 DEF Packages
  <2>6. pc' = pc /\ Later' = Later
    BY <1>5, <1>8 DEF Answer, client
  <2> QED
    BY <1>0, <2>0, <2>5, <2>6 DEF Left
<1>9. ASSUME Typed, Queues, CtrlC PROVE Left' <= Left
  <2>1. pc \in {"send", "recv", "drain"} /\ pc' = "finally" /\ Later' = Later /\ Packages' = Packages
    BY <1>5, <1>6, <1>9 DEF CtrlC, sensor
  <2> QED
    BY <1>0, <1>1, <1>2, <1>9, <2>1 DEF Left
<1>10. ASSUME \E t \in Tools : Start(t) PROVE pc = "off" /\ Left' <= 31
  <2> PICK t \in Tools : Start(t)
    BY <1>10
  <2>1. pc = "off" /\ pc' = "send" /\ tool' = t /\ step' = 1 /\ data' = <<>> /\ commands' = <<>>
    BY DEF Start
  <2>2. PICK n \in 1 .. 4 : Len(Program[t]) = n
    BY Programs
  <2>3. Later' \in 0 .. 3
    BY <2>1, <2>2 DEF Later
  <2>4. Packages' = 0
    BY <2>1 DEF Packages
  <2>5. Call(pc') = 7
    BY <1>0, <2>1
  <2> QED
    BY <2>1, <2>3, <2>4, <2>5 DEF Left
<1>11. Client => pc # "off"
  BY DEF Client, Write, WriteFails, Read, ReadTimesOut, Drain, DrainTimesOut, Finally
<1>12. ASSUME Typed, Queues, LeftOK, LeftOK', Next PROVE LeftShrinks
  <2>1. CASE Client
    BY <1>7, <1>11, <1>12, <2>1 DEF LeftShrinks, LeftOK
  <2>2. CASE ~Client /\ (Answer \/ CtrlC)
    <3>1. pc = "off" => pc' = "off"
      BY <2>2 DEF Answer, CtrlC, client
    <3> QED
      BY <1>8, <1>9, <1>12, <2>2, <3>1 DEF LeftShrinks
  <2>3. CASE \E t \in Tools : Start(t)
    BY <1>10, <1>11, <2>3 DEF LeftShrinks
  <2> QED
    BY <1>12, <2>1, <2>2, <2>3 DEF Next
<1>13. Typed /\ Queues /\ LeftOK /\ LeftOK' /\ [Next]_vars => [LeftShrinks]_vars
  BY <1>12
<1>14. Inv => Typed
  BY DEF Inv
<1> QED
  BY <1>3, <1>13, <1>14, Invariance, Bounding, PTL DEF Spec
=============================================================================
