---------------------------- MODULE ClockDisplay ----------------------------
(***************************************************************************)
(* The clock of the board application: the thread rgbled of main.c keeps   *)
(* the time on a panel of LEDs, morphdigit.c moves the segments of a digit *)
(* into those of the next one, pixel by pixel.                             *)
(*                                                                         *)
(* A behaviour follows one pair of digits: the hours, the minutes or the   *)
(* seconds.  The digits have no pixel in common, and morph_update treats   *)
(* them alike.  A pixel is a place in the cell of its digit, lit or not.   *)
(***************************************************************************)
EXTENDS Integers, Sequences

CONSTANTS
    Tops,      \* how many values the field has: 24 or 60
    BLACK,     \* the colour after the last that draws: 7 in the code
    LATE_MAX   \* bound: how many values the clock is past the time last read

ASSUME ClockConstants ==
    /\ Tops \subseteq {24, 60}
    /\ BLACK \in Nat /\ BLACK > 1
    /\ LATE_MAX \in 1 .. 23

VARIABLES
    rtc,    \* external: the field of the clock, and how many values it has
    app,    \* where the thread is, and its variables
    shown,  \* the pixels of each digit that are lit
    color,  \* dat.color, and Change_Color
    marks    \* history: the digits led to their value as morph0 to morph9 were
            \* made for, and that the interrupt stepped over BLACK

clockVars == <<rtc, app, shown, color, marks>>

Place == {"tens", "unit"}

Digit(place, value) == IF place = "tens" THEN value \div 10 ELSE value % 10
Digits(value) == [place \in Place |-> Digit(place, value)]

-----------------------------------------------------------------------------
(* draw_num *)

segWidth == 5

\* A vertical line of a segment's length; segHeight = segWidth.
Column(x, y) == {<<x, y + d>> : d \in 0 .. segWidth - 1}
Row(x, y) == {<<x + d, y>> : d \in 0 .. segWidth - 1}

Segment ==
    [A |-> Row(2, 13), B |-> Column(7, 8), C |-> Column(7, 2), D |-> Row(2, 1),
     E |-> Column(1, 2), F |-> Column(1, 8), G |-> Row(2, 7)]

SegmentsOf == <<
    {"B", "C"}, {"A", "B", "D", "E", "G"}, {"A", "B", "C", "D", "G"}, {"B", "C", "F", "G"},
    {"A", "C", "D", "F", "G"}, {"A", "C", "D", "E", "F", "G"}, {"A", "B", "C"},
    {"A", "B", "C", "D", "E", "F", "G"}, {"A", "B", "C", "D", "F", "G"}>>

NumSegments(num) == IF num = 0 THEN {"A", "B", "C", "D", "E", "F"} ELSE SegmentsOf[num]

draw_num(num) == UNION {Segment[s] : s \in NumSegments(num)}

-----------------------------------------------------------------------------
(* morph0 to morph9: what the i-th turn of the loop erases and draws *)

\* The turns of the loop: i < segWidth or i <= segWidth.
Turns(num) == IF num \in {0, 4, 5} THEN segWidth ELSE segWidth + 1

FromRight(i) == segWidth + 1 - i

\* The pixels at x of the three rows, from the bottom.
RowPixels(x) == <<  <<x, 1>>, <<x, 7>>, <<x, 13>>  >>

\* Erased by the turns of 6 and 8: the column to the right of the one they draw.
Follows(num, i) ==
    Column(FromRight(i) + 1, 2) \cup (IF num = 8 THEN Column(FromRight(i) + 1, 8) ELSE {})

\* Mutant: the first turn erases, too.
ErasesBehindAlways(num, i) == Follows(num, i)

\* The first turn has drawn nothing that is to be moved.
ErasesBehind(num, i) == IF i > 0 THEN Follows(num, i) ELSE {}

Erases(num, i) ==
    CASE num = 0 -> {RowPixels(FromRight(i))[2]}
      [] num = 1 -> Column(1 + i, 8) \cup Column(1 + i, 2)
                        \cup {RowPixels(2 + i)[row] : row \in 1 .. 3}
      [] num = 2 -> Column(FromRight(i) + 1, 2)
      [] num \in {3, 9} -> Column(1 + i, 2)
      [] num = 4 -> {RowPixels(FromRight(i))[3], RowPixels(2 + i)[1]}
      [] num = 5 -> {<<segWidth + 2, 8 + i>>}
      [] num = 7 -> Column(1 + i, 8) \cup Column(1 + i, 2)
                        \cup {RowPixels(2 + i)[row] : row \in 1 .. 2}
      [] num \in {6, 8} -> ErasesBehind(num, i)

Draws(num, i) ==
    CASE num = 0 -> {<<1, 6 - i>>, <<segWidth + 2, 12 - i>>}
      [] num \in {1, 7} -> Column(2 + i, 8) \cup Column(2 + i, 2)
      [] num = 2 -> Column(FromRight(i), 2)
                        \cup {RowPixels(FromRight(i))[row] : row \in {r \in 1 .. 3 : i < segWidth}}
      [] num \in {3, 9} -> Column(2 + i, 2)
      [] num = 4 -> {<<1, 12 - i>>}
      [] num = 5 -> {RowPixels(FromRight(i))[row] : row \in {1, 3}}
      [] num = 6 -> Column(FromRight(i), 2)
      [] num = 8 -> Column(FromRight(i), 2) \cup Column(FromRight(i), 8)
                        \cup {RowPixels(FromRight(i))[row] : row \in {r \in 1 .. 2 : i < segWidth}}

\* draw_pixel in a colour: BLACK erases, and what is no colour does nothing.
Drawn(pixels, in, c) ==
    CASE c < BLACK -> in \cup pixels
      [] c = BLACK -> in \ pixels
      [] OTHER -> in

-----------------------------------------------------------------------------

ClockInit ==
    /\ \E top \in Tops : rtc \in [top : {top}, now : 0 .. top - 1]
    /\ app = [at |-> "loop", place |-> "unit", turn |-> 0, disp_t |-> 0, m_color |-> 1,
              dat_array |-> Digits(0), b_init |-> FALSE, RGBLED_ON |-> TRUE,
              count_rgbled |-> 0, count_oled |-> 0]
    /\ shown = [place \in Place |-> {}]
    /\ color = [color |-> 0, change |-> FALSE]
    /\ marks = [led |-> Place, stepped |-> FALSE]

AtLoop == app.at = "loop"

\* The real time clock, at any moment: also while the panel is off, and more
\* than once in a turn of the loop.
RtcTick ==
    /\ (rtc.now - app.disp_t) % rtc.top < LATE_MAX \/ ~app.b_init
    /\ rtc' = [rtc EXCEPT !.now = (@ + 1) % rtc.top]
    /\ UNCHANGED <<app, shown, color, marks>>

\* The time is read and morph_update called: the first time it draws the digits.
UpdateFirst ==
    /\ AtLoop /\ app.RGBLED_ON /\ ~app.b_init
    /\ app' = [app EXCEPT !.disp_t = rtc.now, !.b_init = TRUE, !.dat_array = Digits(rtc.now)]
    /\ shown' = [place \in Place |-> draw_num(Digit(place, rtc.now))]
    /\ marks' = [marks EXCEPT !.led = Place]
    /\ UNCHANGED <<rtc, color>>

Update ==
    /\ AtLoop /\ app.RGBLED_ON /\ app.b_init
    /\ app' = [app EXCEPT !.disp_t = rtc.now, !.at = "digit", !.place = "unit",
                          !.m_color = IF color.change THEN color.color ELSE @]
    /\ UNCHANGED <<rtc, shown, color, marks>>

\* After the units, the tens.
NextDigit(a) ==
    IF a.place = "unit" THEN [a EXCEPT !.at = "digit", !.place = "tens", !.turn = 0]
    ELSE [a EXCEPT !.at = "loop", !.place = "unit", !.turn = 0]

\* The digits that the comments of morph0 to morph9 say they start from.
Before(digit) == IF digit = 0 THEN {9, 5} ELSE {digit - 1}

UpdateDigit ==
    /\ app.at = "digit"
    /\ LET digit == Digit(app.place, app.disp_t)
           old == app.dat_array[app.place]
       IN  /\ app' = IF old = digit THEN NextDigit(app)
                     ELSE [app EXCEPT !.dat_array[app.place] = digit, !.at = "morph"]
           /\ marks' = IF old \in Before(digit) \cup {digit} THEN marks
                      ELSE [marks EXCEPT !.led = @ \ {app.place}]
    /\ UNCHANGED <<rtc, shown, color>>

\* A turn of the loop of morph0 to morph9, with a delay after it.
MorphTurn ==
    /\ app.at = "morph"
    /\ LET num == app.dat_array[app.place]
       IN  /\ shown' = [shown EXCEPT ![app.place] =
                            Drawn(Draws(num, app.turn), @ \ Erases(num, app.turn), app.m_color)]
           /\ app' = IF app.turn + 1 = Turns(num) THEN NextDigit(app)
                     ELSE [app EXCEPT !.turn = @ + 1]
    /\ UNCHANGED <<rtc, color, marks>>

-----------------------------------------------------------------------------
(* The keys that switch the panel off and on, and the menu with it *)

KeyXOff ==
    /\ AtLoop /\ app.count_rgbled = 0
    /\ app' = [app EXCEPT !.count_rgbled = 1, !.at = "effects"]
    /\ UNCHANGED <<rtc, shown, color, marks>>

KeyYOff ==
    /\ AtLoop /\ app.count_oled = 0
    /\ app' = [app EXCEPT !.count_oled = 1, !.at = "effects"]
    /\ UNCHANGED <<rtc, shown, color, marks>>

\* color_change in Effects_one: the colour is incremented, and then compared.
EffectsColor ==
    /\ app.at = "effects"
    /\ color' = [color EXCEPT !.color = @ + 1]
    /\ app' = [app EXCEPT !.at = "compare"]
    /\ UNCHANGED <<rtc, shown, marks>>

Compared(c) == IF c = BLACK THEN 0 ELSE c

\* Effects_one goes on, or has erased the panel.
EffectsCompare ==
    /\ app.at = "compare"
    /\ color' = [color EXCEPT !.color = Compared(@)]
    /\ \/ app' = [app EXCEPT !.at = "effects"] /\ UNCHANGED shown
       \/ /\ app' = [app EXCEPT !.at = "loop", !.RGBLED_ON = FALSE]
          /\ shown' = [place \in Place |-> {}]
    /\ UNCHANGED <<rtc, marks>>

\* morph_init draws over what is there, and leaves dat_array alone: the digit
\* is led if dat_array holds it, and what is there is nothing or the same.
morph_init(value) ==
    /\ shown' = [place \in Place |->
                    Drawn(draw_num(Digit(place, value)), shown[place], app.m_color)]
    /\ marks' = [marks EXCEPT !.led = {place \in Place :
                    /\ app.dat_array[place] = Digit(place, value)
                    /\ app.RGBLED_ON => place \in @}]

KeyXOn ==
    /\ AtLoop /\ app.count_rgbled = 1
    /\ app' = [app EXCEPT !.count_rgbled = 0, !.RGBLED_ON = TRUE, !.disp_t = rtc.now]
    /\ morph_init(rtc.now)
    /\ UNCHANGED <<rtc, color>>

\* The time is not read again.
KeyYOn ==
    /\ AtLoop /\ app.count_oled = 1
    /\ app' = [app EXCEPT !.count_oled = 0, !.RGBLED_ON = TRUE]
    /\ morph_init(app.disp_t)
    /\ UNCHANGED <<rtc, color>>

\* system_choose1 of the menu: from now on the colour changes.
Colorful ==
    /\ AtLoop /\ app.count_oled = 1 /\ ~color.change
    /\ color' = [color EXCEPT !.change = TRUE]
    /\ UNCHANGED <<rtc, app, shown, marks>>

\* The interrupt of TIM3.  Bound: the colour is below twice BLACK.
PeriodElapsed ==
    /\ color.change /\ color.color < 2 * BLACK
    /\ color' = [color EXCEPT !.color = Compared(@ + 1)]
    /\ marks' = [marks EXCEPT !.stepped = @ \/ color.color = BLACK]
    /\ UNCHANGED <<rtc, app, shown>>

ClockNext ==
    \/ RtcTick
    \/ UpdateFirst \/ Update \/ UpdateDigit \/ MorphTurn
    \/ KeyXOff \/ KeyYOff \/ EffectsColor \/ EffectsCompare \/ KeyXOn \/ KeyYOn
    \/ Colorful \/ PeriodElapsed

ClockSpec == ClockInit /\ [][ClockNext]_clockVars

-----------------------------------------------------------------------------
(* Properties *)

\* Whenever the thread is done with an update, the panel shows the time it
\* read, in the digits that draw_num would draw: morph0 to morph9 have moved
\* every pixel to its place, however the panel was switched and however late
\* the thread read the clock.  A digit that was not led shows anything, until
\* the panel is drawn anew; so does the panel once BLACK was stepped over.
ShowsTime ==
    AtLoop /\ app.RGBLED_ON /\ app.b_init /\ ~marks.stepped =>
        \A place \in marks.led : shown[place] = draw_num(Digit(place, app.disp_t))

\* The colour is one that draws, unless the interrupt stepped over BLACK
\* between the thread's increment and its comparison.
ColorDraws ==
    marks.stepped \/ (app.m_color < BLACK /\ (app.at # "compare" => color.color < BLACK))

\* The panel shows the time in a colour that is seen.
ClockInvariant == ShowsTime /\ ColorDraws

\* "9 -> 0, 5 -> 0" is written above morph0: a digit becomes 0 from a 9 or a 5.
\* The code: at midnight 2 becomes 0, and 3 becomes 0.
MorphsToZero ==
    app.at = "morph" /\ app.turn = 0 /\ app.dat_array[app.place] = 0 =>
        shown[app.place] \in {draw_num(9), draw_num(5)}

=============================================================================
