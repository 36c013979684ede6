------------------------------ MODULE UsbTools ------------------------------
(***************************************************************************)
(* The tools that talk to the sensor themselves, without HP's binary, over *)
(* its command endpoints 0x01 and 0x81 and its data endpoint 0x82:         *)
(*   "getver"  tools/vcsfw_getver.py, one command and its answer;          *)
(*   "nossl"   tools/test_nossl.py, which asks for the configuration       *)
(*             without a secure session, to see whether that is refused;   *)
(*   "ssl"     tools/ssl_session.py, the client of the sensor's SSLv3.     *)
(* They run one after the other, and any of them may be interrupted.  The  *)
(* sensor (external, as docs/SSL_PROTOCOL.md tells it) answers commands in *)
(* order, late or not at all.                                              *)
(*                                                                         *)
(* Cryptography is symbolic: a hash, a MAC or a ciphertext is the tuple of *)
(* what went into it, so two are equal when all of that is.                *)
(***************************************************************************)
EXTENDS Naturals, Sequences

CONSTANT MaxRuns   \* bound: times a tool is started

ASSUME RunsAssumption == MaxRuns \in Nat

VARIABLES
  tool, runs, \* the tool that runs or ran last, and how many have
  pc,         \* "send", "recv", "drain" (the data endpoint), "finally" or "off"
  step,       \* position in the tool's program
  failed,     \* has a command of this run ended in a USBError?
  reply,      \* the last answer read
  TRAFFIC,    \* ssl_session.py's log of the command endpoints
  shown,      \* the verdict on the screen
  commands,   \* sensor: accepted, not yet answered
  replies,    \* sensor: answers that wait on 0x81
  data,       \* sensor: packets that wait on 0x82, a "full" one is 16384 bytes
  heard       \* sensor: the randoms of the last two hellos, its client's and its own

client == <<tool, runs, pc, step, failed, reply, TRAFFIC, shown>>
sensor == <<commands, replies, data, heard>>
vars == <<tool, runs, pc, step, failed, reply, TRAFFIC, shown, commands, replies, data, heard>>

-----------------------------------------------------------------------------
(* captures/init_cmds.json stands for the first two: a patch, answered by  *)
(* a status, and a read (0x1F) with data besides.                          *)
Program == [getver |-> <<"version">>,
            nossl  |-> <<"patch", "read", "config">>,
            ssl    |-> <<"patch", "read", "hello", "flight">>]
Tools == DOMAIN Program

Kind == Program[tool][step]
Current == <<runs, step>>    \* what tells a command from every other

Random(by) == [by |-> by, n |-> runs]          \* secrets.token_bytes
NoRandom == [by |-> "nobody", n |-> 0]         \* bytes that are no random
NoReply == [no |-> <<0, 0>>, type |-> "none", random |-> NoRandom]

-----------------------------------------------------------------------------
(* ssl_session.py: keys, Finished and the record that carries it.          *)

ssl3_prf(secret, seed_a, seed_b) == <<secret, seed_a, seed_b>>
ssl3_finished(master, msgs) == <<master, msgs>>

SSLState(keyblock) ==
  [cmac |-> <<keyblock, "cmac">>, ckey |-> <<keyblock, "ckey">>,
   civ |-> <<keyblock, "civ">>, send_seq |-> 0]

encrypt_record(st, body) ==
  [key |-> st.ckey, iv |-> st.civ, body |-> body, mac |-> <<st.cmac, st.send_seq, body>>]

FaultyHello == NoRandom        \* hashed before the random is put in
Hello == Random("client")

Flight ==
  LET premaster == Random("premaster")
      master    == ssl3_prf(premaster, Random("client"), reply.random)
      keyblock  == ssl3_prf(master, reply.random, Random("client"))
      hs_msgs   == <<Hello, reply.random, premaster>>
  IN  [premaster |-> premaster,
       finished  |-> encrypt_record(SSLState(keyblock), ssl3_finished(master, hs_msgs))]

Command ==
  [no |-> Current, kind |-> Kind, random |-> Random("client"),
   flight |-> IF Kind = "flight" THEN Flight ELSE <<>>]

-----------------------------------------------------------------------------
(* What the properties must notice if it went missing.                     *)

FaultyConfigured == replies      \* no set_configuration
Configured == <<>>

FaultyGivesUp == FALSE           \* ssl_session.py goes on after an error, too
GivesUp == tool # "nossl"

FaultyMore == step <= Len(Program[tool])     \* one command too many
More == step < Len(Program[tool])

FaultyDrainTimed == FALSE        \* no timeout on the data endpoint
DrainTimed == TRUE

(* The first byte of an answer is its record type, 0x16 for a hello and    *)
(* for an encrypted Finished alike, or the low byte of a status.           *)
Verdict(r) ==
  CASE tool = "getver" -> "version"
    [] tool = "nossl" -> IF r.type = "0x0404" THEN "DENIED" ELSE "ACCEPTED"
    [] tool = "ssl" /\ r.type \in {"hello", "finished"} -> "HANDSHAKE OK"
    [] tool = "ssl" /\ r.type = "alert" -> "ALERT"
    [] OTHER -> "nothing"

Init ==
  /\ tool \in Tools /\ runs = 0 /\ pc = "off" /\ step = 1
  /\ failed = FALSE /\ reply = NoReply /\ TRAFFIC = <<>> /\ shown = "nothing"
  /\ commands = <<>> /\ replies = <<>> /\ data = <<>> /\ heard = <<>>

-----------------------------------------------------------------------------
(* The next command, or the verdict after the last one.                    *)
Advance(r) ==
  IF More THEN pc' = "send" /\ step' = step + 1 /\ shown' = shown
          ELSE pc' = "finally" /\ step' = step /\ shown' = Verdict(r)

(* A USBError: test_nossl.py prints it and takes the next command.         *)
Fail ==
  /\ failed' = TRUE /\ shown' = shown
  /\ IF ~GivesUp /\ More THEN pc' = "send" /\ step' = step + 1
                         ELSE pc' = "finally" /\ step' = step

Note(dir, no) ==
  TRAFFIC' = IF tool = "ssl" THEN Append(TRAFFIC, [dir |-> dir, no |-> no]) ELSE TRAFFIC

(* set_configuration(1) discards what waits in the endpoints; by the time  *)
(* a user has started the next tool the sensor has done with the last one. *)
Start(t) ==
  /\ pc = "off" /\ runs < MaxRuns
  /\ tool' = t /\ runs' = runs + 1 /\ pc' = "send" /\ step' = 1
  /\ failed' = FALSE /\ reply' = NoReply /\ TRAFFIC' = <<>> /\ shown' = "nothing"
  /\ commands' = <<>> /\ replies' = Configured /\ data' = <<>>
  /\ UNCHANGED heard

Write ==
  /\ pc = "send"
  /\ Note("OUT", Current)
  /\ commands' = Append(commands, Command)
  /\ pc' = "recv"
  /\ UNCHANGED <<tool, runs, step, failed, reply, shown, replies, data, heard>>

(* The log has the command before the write is tried.                      *)
WriteFails ==
  /\ pc = "send"
  /\ Note("OUT", Current)
  /\ Fail
  /\ UNCHANGED <<tool, runs, reply, sensor>>

Read ==
  /\ pc = "recv" /\ replies # <<>>
  /\ reply' = Head(replies) /\ replies' = Tail(replies)
  /\ Note("IN01", Head(replies).no)
  /\ IF Kind \in {"read", "config"} THEN pc' = "drain" /\ UNCHANGED <<step, shown>>
                                    ELSE Advance(Head(replies))
  /\ UNCHANGED <<tool, runs, failed, commands, data, heard>>

ReadTimesOut ==
  /\ pc = "recv" /\ replies = <<>>
  /\ Fail
  /\ UNCHANGED <<tool, runs, reply, TRAFFIC, sensor>>

(* The data endpoint is read until a packet is short ...                   *)
Drain ==
  /\ pc = "drain" /\ data # <<>>
  /\ data' = Tail(data)
  /\ IF Head(data) = "short" THEN Advance(reply) ELSE UNCHANGED <<pc, step, shown>>
  /\ UNCHANGED <<tool, runs, failed, reply, TRAFFIC, commands, replies, heard>>

(* ... or none comes, which is no error.                                   *)
DrainTimesOut ==
  /\ pc = "drain" /\ data = <<>> /\ DrainTimed
  /\ Advance(reply)
  /\ UNCHANGED <<tool, runs, failed, reply, TRAFFIC, sensor>>

CtrlC ==
  /\ pc \in {"send", "recv", "drain"}
  /\ pc' = "finally"
  /\ UNCHANGED <<tool, runs, step, failed, reply, TRAFFIC, shown, sensor>>

(* The log is written to my_session.json and the interface released.       *)
Finally ==
  /\ pc = "finally"
  /\ pc' = "off"
  /\ UNCHANGED <<tool, runs, step, failed, reply, TRAFFIC, shown, sensor>>

-----------------------------------------------------------------------------
(* The sensor: a hello gets one back or an alert, a flight the sensor's    *)
(* Finished or an alert, and any other command a status.  What makes it    *)
(* accept a flight is in its firmware and is not modelled: the sensor at   *)
(* hand has answered every flight of this tool with alert 0x2f, those with *)
(* the documented keys, too (docs/SSL_PROTOCOL.md:65).                     *)
Answers(c) ==
  CASE c.kind = "hello" -> {"hello", "alert"}
    [] c.kind = "flight" -> {"finished", "alert"}
    [] OTHER -> {"0x0000", "0x0404"}

Packets(c) ==
  IF c.kind \in {"read", "config"}
    THEN {<<>>, <<"short">>, <<"full">>, <<"full", "short">>} ELSE {<<>>}

Answer ==
  /\ commands # <<>>
  /\ LET c == Head(commands)
         own == [by |-> "sensor", n |-> c.no[1]]
     IN  \E type \in Answers(c), packets \in Packets(c) :
           /\ replies' = Append(replies, [no |-> c.no, type |-> type,
                           random |-> IF type = "hello" THEN own ELSE NoRandom])
           /\ heard' = IF type = "hello" THEN <<c.random, own>> ELSE heard
           /\ data' = data \o packets
  /\ commands' = Tail(commands)
  /\ UNCHANGED client

Client == Write \/ WriteFails \/ Read \/ ReadTimesOut \/ Drain \/ DrainTimesOut \/ Finally

Next == Client \/ CtrlC \/ Answer \/ \E t \in Tools : Start(t)

Spec == Init /\ [][Next]_vars

(* Every call to libusb has a timeout, so the tool runs on; nothing is     *)
(* asked of the sensor.                                                    *)
FairSpec == Spec /\ WF_vars(Client)

-----------------------------------------------------------------------------
Numbers == (0 .. MaxRuns) \X (0 .. 4)
Randoms == [by : {"client", "premaster", "sensor", "nobody"}, n : 0 .. MaxRuns]
Replies == [no : Numbers, random : Randoms,
            type : {"none", "0x0000", "0x0404", "hello", "alert", "finished"}]

TypeOK ==
  /\ tool \in Tools /\ runs \in 0 .. MaxRuns
  /\ pc \in {"send", "recv", "drain", "finally", "off"}
  /\ step \in 1 .. Len(Program[tool]) /\ failed \in BOOLEAN
  /\ reply \in Replies
  /\ TRAFFIC \in Seq([dir : {"OUT", "IN01"}, no : Numbers])
  /\ shown \in {"nothing", "version", "DENIED", "ACCEPTED", "HANDSHAKE OK", "ALERT"}
  /\ \A k \in 1 .. Len(commands) : commands[k].no \in Numbers
  /\ replies \in Seq(Replies) /\ data \in Seq({"full", "short"})
  /\ heard = <<>> \/ heard \in Randoms \X Randoms

(* What a tool shows it has read off the sensor's answer to the command it *)
(* speaks of: "HANDSHAKE OK - server sent CCS/Finished!"                   *)
(* (ssl_session.py:170) off the answer to this session's flight, never off *)
(* a hello, which begins with the same byte.  Only test_nossl.py, which    *)
(* goes on after a USBError (test_nossl.py:53), shows what may be the late *)
(* answer to an earlier command once one has failed.                       *)
AnswerIsOwn ==
  shown # "nothing" /\ (tool = "nossl" => ~failed) => reply.no = Current

(* The flight docs/SSL_PROTOCOL.md:28-42 prescribes once the sensor has    *)
(* heard a client's random and sent its own: master secret and key block   *)
(* with the randoms in their two orders, the Finished over all that was    *)
(* said, in the first record under those keys.                             *)
Documented(flight) ==
  LET premaster == flight.premaster
      master    == <<premaster, heard[1], heard[2]>>
      keyblock  == <<master, heard[2], heard[1]>>
      finished  == <<master, <<heard[1], heard[2], premaster>>>>
  IN  /\ heard # <<>>
      /\ flight.finished = [key |-> <<keyblock, "ckey">>, iv |-> <<keyblock, "civ">>,
                            body |-> finished,
                            mac |-> <<<<keyblock, "cmac">>, 0, finished>>]

(* A flight that follows the sensor's hello is the documented one for the  *)
(* randoms of this very session, as the sensor has heard and sent them,    *)
(* whatever sessions were broken off before.  It does not say that the     *)
(* sensor accepts it; the one at hand does not.                            *)
FlightDocumented ==
  \A k \in 1 .. Len(commands) :
    commands[k].kind = "flight" /\ reply.type = "hello" => Documented(commands[k].flight)

(* In the log of a session every answer stands behind the command that it  *)
(* answers, so that it can be held against a capture of HP's own traffic.  *)
TrafficPaired ==
  \A k \in 1 .. Len(TRAFFIC) : TRAFFIC[k].dir = "IN01" =>
    k > 1 /\ TRAFFIC[k - 1] = [dir |-> "OUT", no |-> TRAFFIC[k].no]

(* A tool lets go of the sensor, whatever that does not answer.            *)
ToolEnds == pc = "send" ~> pc = "off"
=============================================================================
