------------------------------ MODULE AtClient ------------------------------
(***************************************************************************)
(* The AT client of components/net/at/src/at_client.c: a caller writes a   *)
(* command to a serial device and waits for the response, a parser thread  *)
(* reads lines from the device and hands them to the caller that waits.    *)
(*                                                                         *)
(* The mutex client->lock admits one caller at a time, and the parser has  *)
(* a higher priority than the callers: a caller takes a step only while    *)
(* the parser waits for input.  The device interrupt comes anywhere.  A    *)
(* line is received whole: its last character is the one that matters.     *)
(***************************************************************************)
EXTENDS Integers, Sequences, SequencesExt

CONSTANTS
    AT_FIFO,      \* bound on the lines in the receive FIFO of the device
    AT_BUF,       \* lines a response buffer holds
    DATA_MAX,     \* bound on the data lines of an answer
    COMMANDS,     \* bound: commands count modulo this, to be told apart
    NOTICE_MAX,   \* bound on the values of rx_notice and resp_notice
    SENT_MAX,     \* bound on the lines the module has still to send
    NoLine        \* what an unused part of the response buffer holds

ASSUME AtClientConstants ==
    /\ {AT_FIFO, AT_BUF, COMMANDS, NOTICE_MAX, SENT_MAX} \subseteq Nat \ {0}
    /\ DATA_MAX \in Nat

VARIABLES
    at,       \* the client: resp, resp_status, its two semaphores' values
    obj,      \* the response object of the caller: line_num, line_counts, buf
    parser,   \* where the parser is, and its locals
    caller,   \* where the caller is, the command, what it returns
    module,   \* external: the lines the module is still to send
    answer,   \* history: the answer the module gives to the command
    fifo,     \* the lines received and not read
    past      \* history: what the runs and theorems set apart, see below

atClientVars == <<at, obj, parser, caller, module, answer, fifo, past>>

(***************************************************************************)
(* past.gap:   a line came between the parser's last read, which found     *)
(*             none, and its reset of rx_notice.                           *)
(* past.late:  the time of a call was over with lines of an answer on      *)
(*             their way, and a release of resp_notice may be left of it.  *)
(* past.partial: lines of a response were copied since the last that ended *)
(*             one.                                                        *)
(* past.clean: the command of the caller began with nothing left of the    *)
(*             ones before it, the module gives it its whole answer or     *)
(*             none, the answer fits into the response buffer, and it did  *)
(*             not end before the caller cleared line_counts.              *)
(***************************************************************************)

EmptyBuf == [i \in 1 .. AT_BUF |-> NoLine]

AtClientInit ==
    /\ at = [resp |-> FALSE, resp_status |-> "AT_RESP_OK", resp_notice |-> 0, rx_notice |-> 0]
    /\ obj = [line_num |-> 0, line_counts |-> 0, buf |-> EmptyBuf]
    /\ parser = [at |-> "read", line |-> NoLine, len |-> 0, line_counts |-> 0]
    /\ caller = [at |-> "idle", op |-> "none", cmd |-> 0, result |-> "none"]
    /\ module = << >> /\ answer = << >> /\ fifo = << >>
    /\ past = [gap |-> FALSE, late |-> FALSE, partial |-> FALSE, clean |-> FALSE]

-----------------------------------------------------------------------------
(* The module and the device interrupt, external *)

Lines(cmd, n, end) ==
    [i \in 1 .. n |-> [cmd |-> cmd, no |-> i, kind |-> "data"]]
        \o <<[cmd |-> cmd, no |-> n + 1, kind |-> end]>>

\* The answers to a command, and to the "AT" of at_client_obj_wait_connect.
Answers(cmd) == {Lines(cmd, n, end) : n \in 0 .. DATA_MAX, end \in {"OK", "ERROR"}}
ConnectAnswers(cmd) == {Lines(cmd, 0, "OK")}

\* The whole answer arrives, a line of it is lost, or the module is silent.
SentLines(lines) == {lines, << >>} \cup {RemoveAt(lines, i) : i \in DOMAIN lines}

Unsolicited == [cmd |-> 0, no |-> 0, kind |-> "URC"]

\* at_client_rx_ind releases rx_notice: the parser, if it waits, reads again.
RxInd ==
    IF parser.at = "wait"
    THEN parser' = [parser EXCEPT !.at = "read"] /\ UNCHANGED at
    ELSE at' = [at EXCEPT !.rx_notice = @ + 1] /\ UNCHANGED parser

\* Bound: what the device and rx_notice hold; a value of rx_notice that is still
\* to be reset is never looked at.
MayReceive == Len(fifo) < AT_FIFO /\ (parser.at = "take" => at.rx_notice < NOTICE_MAX)

DeviceReceive ==
    /\ MayReceive
    /\ module # << >>
    /\ fifo' = Append(fifo, Head(module)) /\ module' = Tail(module)
    /\ RxInd
    /\ UNCHANGED <<obj, caller, answer, past>>

\* An unsolicited result code, between answers.  Bound: one is unread at a time.
DeviceReceiveUrc ==
    /\ MayReceive
    /\ module = << >> /\ Unsolicited \notin Range(fifo)
    /\ fifo' = Append(fifo, Unsolicited)
    /\ RxInd
    /\ UNCHANGED <<obj, caller, module, answer, past>>

\* Nothing of an answer is on its way to the parser or in its hands.
OnlyUnsolicited ==
    /\ module = << >>
    /\ fifo \in Seq({Unsolicited})
    /\ parser.at = "line" => parser.line = Unsolicited

-----------------------------------------------------------------------------
(* client_parser *)

\* at_client_getchar, up to the end of a line.
ParserRead ==
    /\ parser.at = "read"
    /\ IF fifo = << >> THEN parser' = [parser EXCEPT !.at = "reset"] /\ UNCHANGED fifo
       ELSE /\ parser' = [parser EXCEPT !.at = "line", !.line = Head(fifo)]
            /\ fifo' = Tail(fifo)
    /\ UNCHANGED <<at, obj, caller, module, answer, past>>

ParserReset ==
    /\ parser.at = "reset"
    /\ at' = [at EXCEPT !.rx_notice = 0]
    /\ parser' = [parser EXCEPT !.at = "take"]
    /\ past' = [past EXCEPT !.gap = fifo # << >>]
    /\ UNCHANGED <<obj, caller, module, answer, fifo>>

\* Mutant: input that came since the reset does not matter.
ParserTakeWaits ==
    /\ parser.at = "take"
    /\ parser' = [parser EXCEPT !.at = "wait"]
    /\ UNCHANGED <<at, obj, caller, module, answer, fifo, past>>

ParserTake ==
    /\ parser.at = "take"
    /\ IF at.rx_notice > 0
       THEN at' = [at EXCEPT !.rx_notice = @ - 1] /\ parser' = [parser EXCEPT !.at = "read"]
       ELSE parser' = [parser EXCEPT !.at = "wait"] /\ UNCHANGED at
    /\ UNCHANGED <<obj, caller, module, answer, fifo, past>>

ParserLineAt == parser.at = "line"

IsResponse == at.resp /\ parser.line.kind # "URC"

\* The function of a URC, or a line nobody waits for.
ParserOther ==
    /\ ParserLineAt /\ ~IsResponse
    /\ parser' = [parser EXCEPT !.at = "read", !.line = NoLine]
    /\ UNCHANGED <<at, obj, caller, module, answer, fifo, past>>

Fits == parser.len < AT_BUF
Counted == IF Fits THEN parser.line_counts + 1 ELSE parser.line_counts
Copied == IF Fits THEN [obj EXCEPT !.buf[parser.len + 1] = parser.line] ELSE obj

\* The status a line gives the response, and whether it is the last one.
LineStatus ==
    CASE parser.line.kind = "OK" /\ obj.line_num = 0 -> "AT_RESP_OK"
      [] parser.line.kind = "ERROR" -> "AT_RESP_ERROR"
      [] obj.line_num # 0 /\ Counted = obj.line_num -> "AT_RESP_OK"
      [] OTHER -> "more"

ParserCopy ==
    /\ ParserLineAt /\ IsResponse
    /\ LineStatus = "more"
    /\ obj' = Copied
    /\ at' = [at EXCEPT !.resp_status = IF Fits THEN @ ELSE "AT_RESP_BUFF_FULL"]
    /\ parser' = [at |-> "read", line |-> NoLine, line_counts |-> Counted,
                  len |-> IF Fits THEN parser.len + 1 ELSE parser.len]
    /\ past' = [past EXCEPT !.partial = TRUE]
    /\ UNCHANGED <<caller, module, answer, fifo>>

\* Mutant: the lines of this response are counted with the next one's.
ParserEndKeepsCount ==
    /\ ParserLineAt /\ IsResponse
    /\ LineStatus # "more"
    /\ obj' = [Copied EXCEPT !.line_counts = Counted]
    /\ at' = [at EXCEPT !.resp = FALSE, !.resp_status = LineStatus,
                        !.resp_notice = IF caller.at = "wait" THEN @ ELSE @ + 1]
    /\ caller' = [caller EXCEPT !.at = IF @ = "wait" THEN "got" ELSE @]
    /\ parser' = [at |-> "read", line |-> NoLine, line_counts |-> Counted, len |-> 0]
    /\ past' = [past EXCEPT !.partial = FALSE, !.clean = @ /\ caller.at # "zero"]
    /\ UNCHANGED <<module, answer, fifo>>

\* The response is complete: the caller is released. 
ParserEnd ==
    /\ ParserLineAt /\ IsResponse
    /\ LineStatus # "more"
    /\ obj' = [Copied EXCEPT !.line_counts = Counted]
    /\ at' = [at EXCEPT !.resp = FALSE, !.resp_status = LineStatus,
                        !.resp_notice = IF caller.at = "wait" THEN @ ELSE @ + 1]
    /\ caller' = [caller EXCEPT !.at = IF @ = "wait" THEN "got" ELSE @]
    /\ parser' = [at |-> "read", line |-> NoLine, line_counts |-> 0, len |-> 0]
    /\ past' = [past EXCEPT !.partial = FALSE, !.clean = @ /\ caller.at # "zero"]
    /\ UNCHANGED <<module, answer, fifo>>

-----------------------------------------------------------------------------
(* at_obj_exec_cmd and at_client_obj_wait_connect *)

CallerAt(step) == caller.at = step /\ parser.at = "wait"

\* The module gets the command and sends what it sends of its answer.  Bound: the
\* lines it has still to send, and the value of resp_notice.
Sends(sent) ==
    /\ at.resp_notice <= NOTICE_MAX
    /\ Len(module \o sent) <= SENT_MAX /\ module' = module \o sent

\* With the lock taken: the response object, and the command written.
Write(op, cmd, lines, lineNum) ==
    /\ answer' = lines
    /\ obj' = [line_num |-> lineNum, line_counts |-> 0, buf |-> EmptyBuf]
    /\ caller' = [at |-> "zero", op |-> op, cmd |-> cmd, result |-> "none"]
    /\ UNCHANGED <<parser, fifo>>

NextCommand == (caller.cmd + 1) % COMMANDS

\* Nothing is left of the commands before.
Quiet ==
    /\ module = << >> /\ fifo = << >>
    /\ at.resp_notice = 0 /\ ~past.partial

Starts(clean) == past' = [past EXCEPT !.late = at.resp_notice > 0, !.clean = clean]

\* A caller waits for the final OK or ERROR, or for the number of lines it
\* knows a successful answer has.
ExecCmd ==
    /\ CallerAt("idle")
    /\ \E lines \in Answers(NextCommand) : \E sent \in SentLines(lines) :
       \E lineNum \in {0} \cup IF Last(lines).kind = "OK" THEN {Len(lines)} ELSE {} :
         /\ Sends(sent) /\ Write("exec", NextCommand, lines, lineNum)
         /\ Starts(Quiet /\ sent \in {lines, << >>} /\ Len(lines) <= AT_BUF)
    /\ at' = [at EXCEPT !.resp = TRUE, !.resp_status = "AT_RESP_OK"]

\* "using RT_NULL when you don't care response": nobody waits for the answer.
ExecNoResp ==
    /\ CallerAt("idle")
    /\ \E lines \in Answers(NextCommand) : \E sent \in SentLines(lines) : Sends(sent)
    /\ at' = [at EXCEPT !.resp = FALSE, !.resp_status = "AT_RESP_OK"]
    /\ caller' = [at |-> "done", op |-> "no_resp", cmd |-> NextCommand, result |-> "RT_EOK"]
    /\ past' = [past EXCEPT !.clean = FALSE]
    /\ UNCHANGED <<obj, parser, answer, fifo>>

WaitConnect ==
    /\ CallerAt("idle")
    /\ \E lines \in ConnectAnswers(NextCommand) : \E sent \in SentLines(lines) :
         Sends(sent) /\ Write("connect", NextCommand, lines, 0)
    /\ at' = [at EXCEPT !.resp = TRUE]
    /\ Starts(FALSE)

\* line_counts is cleared after the command was written.
CallerZero ==
    /\ CallerAt("zero")
    /\ obj' = [obj EXCEPT !.line_counts = 0]
    /\ caller' = [caller EXCEPT !.at = "take"]
    /\ UNCHANGED <<at, parser, module, answer, fifo, past>>

CallerTake ==
    /\ CallerAt("take")
    /\ IF at.resp_notice > 0
       THEN /\ at' = [at EXCEPT !.resp_notice = @ - 1]
            /\ caller' = [caller EXCEPT !.at = "got"]
       ELSE caller' = [caller EXCEPT !.at = "wait"] /\ UNCHANGED at
    /\ UNCHANGED <<obj, parser, module, answer, fifo, past>>

\* The timer of rt_sem_take(client->resp_notice, resp->timeout): at any time.
CallerTimeout ==
    /\ caller.at = "wait"
    /\ caller' = [caller EXCEPT !.at = "timeout"]
    /\ past' = [past EXCEPT !.late = @ \/ ~OnlyUnsolicited, !.clean = FALSE]
    /\ UNCHANGED <<at, obj, parser, module, answer, fifo>>

ExecTimeout ==
    /\ CallerAt("timeout") /\ caller.op = "exec"
    /\ at' = [at EXCEPT !.resp = FALSE, !.resp_status = "AT_RESP_TIMEOUT"]
    /\ caller' = [caller EXCEPT !.at = "done", !.result = "RT_ETIMEOUT"]
    /\ UNCHANGED <<obj, parser, module, answer, fifo, past>>

ExecGot ==
    /\ CallerAt("got") /\ caller.op = "exec"
    /\ at' = [at EXCEPT !.resp = FALSE]
    /\ caller' = [caller EXCEPT !.at = "done",
                     !.result = IF at.resp_status = "AT_RESP_OK" THEN "RT_EOK" ELSE "RT_ERROR"]
    /\ UNCHANGED <<obj, parser, module, answer, fifo, past>>

\* "AT" is written again until the time of the call is over.
ConnectRetry ==
    /\ CallerAt("timeout") /\ caller.op = "connect"
    /\ obj' = [obj EXCEPT !.line_counts = 0]
    /\ \E sent \in SentLines(answer) : Sends(sent)
    /\ caller' = [caller EXCEPT !.at = "take"]
    /\ UNCHANGED <<at, parser, answer, fifo, past>>

\* at_delete_resp: client->resp still points to the object for a moment.
ConnectDelete ==
    /\ CallerAt("timeout") \/ CallerAt("got")
    /\ caller.op = "connect"
    /\ caller' = [caller EXCEPT !.at = "deleted",
                     !.result = IF caller.at = "got" THEN "RT_EOK" ELSE "RT_ETIMEOUT"]
    /\ UNCHANGED <<at, obj, parser, module, answer, fifo, past>>

ConnectReturn ==
    /\ CallerAt("deleted")
    /\ at' = [at EXCEPT !.resp = FALSE]
    /\ caller' = [caller EXCEPT !.at = "done"]
    /\ UNCHANGED <<obj, parser, module, answer, fifo, past>>

CallerReturn ==
    /\ CallerAt("done")
    /\ caller' = [caller EXCEPT !.at = "idle", !.op = "none", !.result = "none"]
    /\ UNCHANGED <<at, obj, parser, module, answer, fifo, past>>

AtParserStep ==
    ParserRead \/ ParserReset \/ ParserTake \/ ParserOther \/ ParserCopy \/ ParserEnd

AtCallerStep ==
    \/ ExecCmd \/ ExecNoResp \/ WaitConnect \/ CallerZero \/ CallerTake \/ CallerTimeout
    \/ ExecTimeout \/ ExecGot \/ ConnectRetry \/ ConnectDelete \/ ConnectReturn \/ CallerReturn

AtClientNext == AtParserStep \/ AtCallerStep \/ DeviceReceive \/ DeviceReceiveUrc

AtClientSpec == AtClientInit /\ [][AtClientNext]_atClientVars

-----------------------------------------------------------------------------
(* Properties *)

\* A response buffer with the first n lines of the answer and no other.
Filled(n) == [i \in 1 .. AT_BUF |-> IF i <= n THEN answer[i] ELSE NoLine]

\* A command that succeeds has the response to itself, the whole of it, and the
\* module did not answer ERROR: whatever its lines meet on their way, and
\* whenever they come, if it began with nothing left of the commands before.
AnswersItsCommand ==
    past.clean /\ caller.at = "done" /\ caller.result = "RT_EOK" =>
        /\ Len(answer) <= AT_BUF /\ obj.buf = Filled(Len(answer))
        /\ obj.line_counts = Len(answer)
        /\ Last(answer).kind = "OK"

\* "Send commands to AT server and wait response": the time of a call is over
\* only if its response did not come, never while the end of it lies unread
\* beside a parser that sleeps.
WaitsForItsResponse ==
    [][caller.at = "wait" /\ caller'.at = "timeout" /\ parser.at = "wait" =>
         Last(answer) \notin Range(fifo)]_caller

\* The lines in the response buffer of a command are of the answer to this
\* command, also after one that was sent "using RT_NULL when you don't care
\* response".
ResponseIsItsOwn ==
    caller.at = "done" /\ caller.op = "exec" =>
        \A i \in 1 .. AT_BUF : obj.buf[i] = NoLine \/ obj.buf[i].cmd = caller.cmd

\* The parser sleeps beside a line it has not read only if that line came
\* between its last read and its reset of rx_notice.
NoLostInput == parser.at = "wait" => fifo = << >> \/ past.gap

\* A release of resp_notice is left for the next command, which would take it
\* for its own, only by an answer that came after its caller's time was over.
NoStaleNotice == caller.at = "idle" => ~at.resp /\ (at.resp_notice = 0 \/ past.late)

\* Only with such an answer does the parser write to a response object that was
\* freed.
ResponseAlive == caller.at = "deleted" /\ parser.at = "line" => ~IsResponse \/ past.late

\* Between the interrupt, the parser and the callers no line, no notice and no
\* response object is left to the wrong one.
AtClientInvariant ==
    /\ NoLostInput
    /\ NoStaleNotice
    /\ ResponseAlive

=============================================================================
