---------------------------------- MODULE Gps ----------------------------------
(***************************************************************************)
(* The GPS receiver of nmea/nmea_parser.c: a receiver (external) writes    *)
(* lines to the UART, the parser task decodes one for each line end the    *)
(* driver saw, queues the last position for the PC link, and drives the    *)
(* event loop whose handler keeps c_gps_location and l_gps_location.       *)
(***************************************************************************)
EXTENDS Nmea

CONSTANTS Epochs,       \* numbers the epochs go through
          FixEpochs,    \* those in which the receiver has a fix
          Many, Few,    \* satellites it sees with a fix and without
          Starts,       \* lines the receiver may be at when the parser starts
          DamageItems,  \* items at which a line may be damaged or torn
          MaxFaults,    \* damaged lines, overflows and failed starts
          RingLines,    \* lines the UART driver has room for
          TcpQueueSize, \* TCP_QUEUE_SIZE
          LoopSize      \* NMEA_EVENT_LOOP_QUEUE_SIZE

ASSUME GpsConstants ==
  /\ Epochs \in Nat \ {0, 1, 2} /\ FixEpochs \subseteq Nat
  /\ Many \in 4..16 /\ Few \in 1..3
  /\ Starts \subseteq 1..6 /\ DamageItems \subseteq 1..4 /\ MaxFaults \in Nat
  /\ RingLines \in Nat \ {0} /\ TcpQueueSize \in Nat \ {0}
  /\ LoopSize \in Nat \ {0}

VARIABLES
  rx,          \* the receiver: epoch, place in it, has a line been lost?
  faults,      \* faults so far
  uart,        \* pieces of lines in the driver's buffer
  event_queue, \* pattern events: ends of lines not yet handled
  dec,         \* the decoder
  loop,        \* events in the event loop: kind, gps_t; history: its window
  task,        \* where the parser task is
  main,        \* where register_nmea is
  handler,     \* gps_event_handler is registered
  c_gps_location, l_gps_location,
  tcp_queue,   \* the parser has the handle of tcp_send_queue
  tcp_send_queue,   \* what is in it
  window       \* history: what was decoded since the last update

receiver == <<rx, faults>>
driver == <<uart, event_queue>>
places == <<c_gps_location, l_gps_location>>
tcp == <<tcp_queue, tcp_send_queue>>
vars == <<receiver, driver, dec, loop, task, main, handler, places, tcp, window>>

FreshWindow == [seen |-> {}, epochs |-> {}, sats |-> {}, over |-> {}, clean |-> TRUE]
HasFix(g) == g.f.fix_mode.n > 1

Init ==
  /\ \E i \in Starts : rx = [e |-> 0, i |-> i, gap |-> TRUE]
  /\ faults = 0 /\ uart = <<>> /\ event_queue = 0
  /\ dec = FreshDecoder /\ loop = <<>>
  /\ task = "none" /\ main = "init" /\ handler = FALSE
  /\ c_gps_location = Zeroed /\ l_gps_location = Zeroed
  /\ tcp_queue = FALSE /\ tcp_send_queue = <<>>
  /\ window = FreshWindow

Fault == faults < MaxFaults /\ faults' = faults + 1

-------------------------------------------------------------------------------
(* The receiver.  An epoch is one group of statements.                      *)

Plain(s) == [NoLine EXCEPT !.s = s]
GsvGroup(v) == [j \in 1..Messages(v) |->
                  [Plain("GSV") EXCEPT !.part = j, !.of = Messages(v)]]
Group(v) == <<Plain("RMC"), Plain("VTG"), Plain("GGA"), Plain("GSA")>>
            \o GsvGroup(v) \o <<Plain("GLL"), Plain("TXT")>>
Sats(e) == IF e \in FixEpochs THEN Many ELSE Few
LineOf(e, i) ==
  [Group(Sats(e))[i] EXCEPT !.id = 16 * e + i, !.e = e, !.sats = Sats(e),
                            !.fix = e \in FixEpochs]
Places == {x \in (0..(Epochs - 1)) \X (1..15) : x[2] <= Len(Group(Sats(x[1])))}
AllLines == {LineOf(x[1], x[2]) : x \in Places}
CharsOf == [ln \in AllLines |-> Characters(ln)]

Current == LineOf(rx.e, rx.i)

Advance(gap) ==
  rx' = IF rx.i < Len(Group(Sats(rx.e))) THEN [rx EXCEPT !.i = @ + 1, !.gap = gap]
        ELSE [e |-> (rx.e + 1) % Epochs, i |-> 1, gap |-> gap]

Whole == [kind |-> "whole", k |-> 0]
Piece(damage) == [ln |-> Current, gap |-> rx.gap, damage |-> damage]
Ends(p) == p.damage.kind # "cut"     \* the piece has the '\n'

Receive(damage) ==
  LET p == Piece(damage)
  IN  IF damage.kind = "lost"
      THEN Advance(TRUE) /\ UNCHANGED driver
      ELSE /\ Len(uart) < RingLines
           /\ task = "reset" => uart = <<>>   \* one line at most in that moment
           /\ uart' = Append(uart, p)
           /\ event_queue' = event_queue + IF Ends(p) THEN 1 ELSE 0
           /\ Advance(FALSE)

rest == <<dec, loop, task, main, handler, places, tcp, window>>

SendLine == task # "none" /\ Receive(Whole) /\ UNCHANGED <<faults, rest>>

\* An item is garbled, the head or the end of a line is lost, or all of it.
SendDamaged ==
  /\ task # "none" /\ Fault
  /\ \/ Receive([kind |-> "lost", k |-> 0])
     \/ \E kind \in {"garbled", "tail", "cut"}, k \in DamageItems :
          Receive([kind |-> kind, k |-> k])
  /\ UNCHANGED rest

-------------------------------------------------------------------------------
(* What the parser task reads: the pieces up to the next '\n'.              *)

PieceChars(p) ==
  LET cs == CharsOf[p.ln]
      at == 2 + 2 * p.damage.k
  IN  CASE p.damage.kind = "garbled" -> [cs EXCEPT ![at].t = Damaged(@)]
        [] p.damage.kind = "tail" -> SubSeq(cs, at, Len(cs))
        [] p.damage.kind = "cut" -> SubSeq(cs, 1, at)
        [] OTHER -> cs

ReadCount == SelectInSeq(uart, Ends)
Decoded ==              \* they are decoded as one line
  LET after[i \in 0..ReadCount] ==
        IF i = 0 THEN [d |-> dec, posts |-> <<>>]
        ELSE GpsDecode(after[i - 1], PieceChars(uart[i]))
  IN  after[ReadCount]

Intact(p) == p.damage = Whole
Ended(p) == Intact(p) /\ p.ln.part = p.ln.of
\* The fields a statement sets, and those its text has overwritten, if not set since.
FieldsOf(s) ==
  IF s = "GSV" THEN {"sats_in_view"}
  ELSE IF s \in DOMAIN Fields THEN {Fields[s][k] : k \in DOMAIN Fields[s]} \ {"none"}
  ELSE {}
Overwritten(s, over) ==
  (over \ FieldsOf(s)) \cup IF s = "TXT" THEN Reached(TextLength) ELSE {}
WindowNow ==
  LET read == {uart[i] : i \in 1..ReadCount}
      last == uart[ReadCount]
  IN  [seen |-> window.seen \cup {p.ln.s : p \in {q \in read : Ended(q)}},
       epochs |-> window.epochs \cup {p.ln.e : p \in read},
       sats |-> IF last.ln.s = "GSV" THEN {last.ln.sats} ELSE window.sats,
       over |-> Overwritten(last.ln.s, window.over),
       clean |-> window.clean /\ \A p \in read : Intact(p) /\ ~p.gap]

\* The event loop takes what it has room for.
Post(kinds, g, w) ==
  LET all == loop \o [i \in DOMAIN kinds |-> [kind |-> kinds[i], g |-> g, w |-> w]]
  IN  SubSeq(all, 1, IF Len(all) < LoopSize THEN Len(all) ELSE LoopSize)

\* The head of gps_decode: a full queue is emptied, the newest position sent.
QueuePosition_NoReset(q) ==
  IF Len(q) >= TcpQueueSize THEN q ELSE Append(q, c_gps_location.f.latitude)
QueuePosition(q) ==
  LET room == IF Len(q) >= TcpQueueSize THEN <<>> ELSE q
  IN  Append(room, c_gps_location.f.latitude)

TakeEvent == task = "wait" /\ event_queue > 0 /\ event_queue' = event_queue - 1

EventPattern ==      \* UART_PATTERN_DET: esp_handle_uart_pattern
  /\ TakeEvent
  /\ IF ReadCount = 0
     THEN /\ uart' = <<>> /\ rx' = [rx EXCEPT !.gap = @ \/ uart # <<>>]
          /\ UNCHANGED <<dec, loop, tcp_send_queue, window>>
     ELSE \E r \in {Decoded}, w \in {WindowNow} :
            /\ uart' = SubSeq(uart, ReadCount + 1, Len(uart))
            /\ dec' = r.d
            /\ loop' = Post(r.posts, r.d.parent, w)
            /\ tcp_send_queue' = IF tcp_queue THEN QueuePosition(tcp_send_queue)
                                 ELSE tcp_send_queue
            /\ window' = IF "GPS_UPDATE" \in ToSet(r.posts) THEN FreshWindow ELSE w
            /\ UNCHANGED rx
  /\ task' = IF loop' = <<>> THEN "wait" ELSE "loop"
  /\ UNCHANGED <<faults, main, handler, places, tcp_queue>>

\* UART_FIFO_OVF, UART_BUFFER_FULL: the buffer is emptied, then the events.
\* The parser being too slow is a fault; a buffer full of lines whose events
\* were lost is emptied in any case.
Stuck == Len(uart) = RingLines /\ event_queue = 0
EventOverflow ==
  /\ task = "wait" /\ uart # <<>> /\ (Stuck \/ faults < MaxFaults)
  /\ faults' = IF Stuck THEN faults ELSE faults + 1
  /\ uart' = <<>> /\ rx' = [rx EXCEPT !.gap = TRUE] /\ task' = "reset"
  /\ UNCHANGED <<event_queue, dec, loop, main, handler, places, tcp, window>>
ResetEvents ==
  /\ task = "reset" /\ event_queue' = 0
  /\ task' = IF loop = <<>> THEN "wait" ELSE "loop"
  /\ UNCHANGED <<receiver, uart, dec, loop, main, handler, places, tcp, window>>

\* gps_event_handler on a GPS_UPDATE.
Handled(g) ==
  /\ l_gps_location' = IF HasFix(c_gps_location) THEN c_gps_location ELSE l_gps_location
  /\ c_gps_location' = g

\* esp_event_loop_run: it hands over events for 50 ms, at least one.  A line
\* posts one at most, so that the loop is empty whenever the task waits, and
\* the timeout of the wait, after 200 ms, changes nothing.
LoopRun ==
  /\ task = "loop"
  /\ loop' = Tail(loop)
  /\ task' = IF loop' = <<>> THEN "wait" ELSE "loop"
  /\ IF handler /\ Head(loop).kind = "GPS_UPDATE" THEN Handled(Head(loop).g)
     ELSE UNCHANGED places
  /\ UNCHANGED <<receiver, driver, dec, main, handler, tcp, window>>

-------------------------------------------------------------------------------
(* register_nmea, and the other users of tcp_send_queue.                    *)

NmeaParserInit ==
  /\ main = "init" /\ main' = "add" /\ task' = "wait"
  /\ tcp_queue' \in BOOLEAN        \* has the PC link been started before?
  /\ UNCHANGED <<receiver, driver, dec, loop, handler, places, tcp_send_queue,
                 window>>
\* A step of it fails: NULL is returned.
NmeaParserInitFails ==
  /\ main = "init" /\ Fault /\ main' = "add"
  /\ UNCHANGED <<rx, driver, dec, loop, task, handler, places, tcp, window>>
\* nmea_parser_add_handler uses the handle: with NULL the device restarts.
AddHandler ==
  /\ main = "add"
  /\ IF task = "none" THEN main' = "init" /\ UNCHANGED handler
     ELSE main' = "done" /\ handler' = TRUE
  /\ UNCHANGED <<receiver, driver, dec, loop, task, places, tcp, window>>

TcpTake ==
  /\ tcp_send_queue # <<>> /\ tcp_send_queue' = Tail(tcp_send_queue)
  /\ UNCHANGED <<receiver, driver, dec, loop, task, main, handler, places,
                 tcp_queue, window>>

ParserTurn == (Stuck /\ EventOverflow) \/ ResetEvents \/ LoopRun
Main == NmeaParserInit \/ AddHandler
Next ==
  \/ SendLine \/ SendDamaged
  \/ EventPattern \/ EventOverflow \/ ResetEvents \/ LoopRun
  \/ Main \/ NmeaParserInitFails \/ TcpTake

Spec == Init /\ [][Next]_vars
\* The receiver keeps writing, the tasks run; faults and the PC owe nothing.
\* Only EventPattern takes an event: it is fair when TakeEvent is.
FairSpec ==
  /\ Spec /\ WF_vars(SendLine) /\ WF_vars(Main)
  /\ WF_event_queue(TakeEvent) /\ WF_vars(ParserTurn)
-------------------------------------------------------------------------------
(* Properties.                                                              *)

Updates == {ev \in ToSet(loop) : ev.kind = "GPS_UPDATE"}

\* nmea_parser.c 540-554: gps_decode clears its XOR at a '$' alone, so that a
\* line without its head is read with what is left from the line before.  The
\* proofs assume that this was not the same line; its losses are the receiver's.
Headless(ln) == Code(Text(ln, 0, 0))
Apart ==
  \A i \in DOMAIN uart : uart[i].damage.kind = "tail" =>
    IF i = 1 THEN Headless(uart[1].ln) \notin dec.crc
    ELSE uart[i - 1].ln.id # uart[i].ln.id

\* nmea_parser.c 582-631, parsed_statement: since the update before, the end of
\* every kind of statement was received undamaged (of a GSV group: the last
\* one), whatever was lost, torn or joined.
CompleteUpdate == \A u \in Updates : Statements \subseteq u.w.seen

AsReceived(v, x, epochs) ==
  v.ok /\ v.e \in epochs /\ v.m = IF x \in Adjustable THEN 1 ELSE 0

\* nmea_parser.c 179-421, 653-654: if nothing was lost or damaged since the update
\* before (values are stored before the checksum is known), every field of the
\* published gps_t is a value received since then, with its sign and second part
\* applied once, but for those the text of a TXT has overwritten last; none of
\* these is a field of RMC (the position, its time and validity), which follows
\* every TXT.  The satellites are those of the last group.
CleanUpdate ==
  \A u \in Updates : u.w.clean =>
    /\ u.w.over \cap FieldsOf("RMC") = {}
    /\ \A x \in FieldNames \ u.w.over : AsReceived(u.g.f[x], x, u.w.epochs)
    /\ \A v \in u.w.sats : \A i \in 0..(MaxView - 1) :
         i < v => LET d == u.g.sats_desc_in_view[i]
                  IN  d.ok /\ d.e \in u.w.epochs

\* nmea_parser.c 74, nmea_parser.h 113: "Current item", "Altitude (meters)": the
\* altitude of a position whose lines all came whole is one of those received.
\* With a long text in a TXT, the code disagrees.
AltitudeReceived ==
  \A u \in Updates :
    u.w.clean => AsReceived(u.g.f["altitude"], "altitude", u.w.epochs)

\* nmea_parser.c 511-532: a line handled leaves the newest position last in the
\* queue of the PC link, also when nobody takes anything from it.
NewestPositionQueued ==
  [][ event_queue' < event_queue /\ uart' # uart /\ ReadCount > 0 /\ tcp_queue
      => /\ tcp_send_queue' # <<>>
         /\ Last(tcp_send_queue') = c_gps_location.f.latitude ]_vars

\* nmea_parser.c 509-660, 693-736: when the faults are over, positions keep
\* reaching the handler, from whatever state damage and overflow left behind.
PositionsKeepComing ==
  []<>(task = "loop" /\ handler /\ Head(loop).kind = "GPS_UPDATE")
=============================================================================
