------------------------------ MODULE MCServices ----------------------------
(***************************************************************************)
(* Instances for TLC of the serial device, the clock of the board and the  *)
(* AT client, which meet the kernel in the order of their steps only.      *)
(* Each behaviour is one of one service, chosen at the start.              *)
(***************************************************************************)
EXTENDS Serial, ClockDisplay, AtClient

CONSTANTS
    Services,               \* the services there are behaviours of
    a, b

VARIABLE service

MCInit ==
    /\ service \in Services
    /\ SerialInit /\ AtClientInit
    /\ ClockInit
    /\ service # "clock" => rtc.now = 0 /\ rtc.top = 60

SerialStep ==
    /\ \/ service = "serial_rx" /\ ReceptionNext
       \/ service = "serial_tx" /\ TransmissionNext
    /\ UNCHANGED <<clockVars, atClientVars>>

ClockStep ==
    /\ service = "clock" /\ ClockNext
    /\ UNCHANGED <<serialVars, atClientVars>>

AtClientStep ==
    /\ service = "at_client" /\ AtClientNext
    /\ UNCHANGED <<serialVars, clockVars>>

MCNext ==
    /\ SerialStep \/ ClockStep \/ AtClientStep
    /\ UNCHANGED service

MCSpec == MCInit /\ [][MCNext]_<<service, serialVars, clockVars, atClientVars>>

-----------------------------------------------------------------------------
\* The pixels of a digit that is not led matter no more until the panel is
\* erased, and nothing does once the interrupt has stepped over BLACK.  Till
\* then m_color draws, and morph_update sets it before it is used again.
ClockView ==
    IF marks.stepped THEN marks
    ELSE <<rtc, [app EXCEPT !.m_color = 0], app.m_color < BLACK, color, marks,
           [place \in Place |-> IF place \in marks.led THEN shown[place] ELSE {}]>>

(***************************************************************************)
(* Commands are told apart, not counted.  rx_notice is not looked at       *)
(* before it is reset, the response object and what is said of a command   *)
(* not after it: two states that agree on the rest behave alike.           *)
(***************************************************************************)
Ago(line) ==
    IF line = NoLine \/ line = Unsolicited THEN line
    ELSE [line EXCEPT !.cmd = (caller.cmd - @) % COMMANDS]

EachAgo(lines) == [i \in DOMAIN lines |-> Ago(lines[i])]

AtClientView ==
    <<[at EXCEPT !.rx_notice = IF parser.at \in {"take", "wait"} THEN @ ELSE 0],
      [parser EXCEPT !.line = Ago(@)], [caller EXCEPT !.cmd = 0],
      IF caller.at = "idle" THEN << >>
      ELSE <<[obj EXCEPT !.buf = EachAgo(@)], EachAgo(answer), past.clean>>,
      parser.at \in {"take", "wait"} /\ past.gap, past.late, past.partial,
      EachAgo(module), EachAgo(fifo)>>

MCView ==
    CASE service = "clock" -> <<service, ClockView>>
      [] service = "at_client" -> <<service, AtClientView>>
      [] OTHER -> <<service, serialVars>>

=============================================================================
