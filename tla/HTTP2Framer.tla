---------------------------- MODULE HTTP2Framer ----------------------------
(***************************************************************************)
(* HTTP/2 frames (http/h2_bundle.go, Framer): the Write methods, with the  *)
(* octets each puts on the wire, and ReadFrame at the other end, with the  *)
(* tests of every frame type, the order it demands of header blocks and    *)
(* the merging of a block's fragments.                                     *)
(*                                                                         *)
(* A frame is its type, its flags, its stream's word and its payload.      *)
(* Words are four octets; a call gives its words that way too, so that one *)
(* with the reserved bit set can be asked for.  HPACK is a library: a      *)
(* header block is a sequence of fields of Table, field i encoded in two   *)
(* octets, 2 * i and 2 * i + 1.                                            *)
(***************************************************************************)
EXTENDS Octets

CONSTANTS Calls,           \* calls of the Write methods
          Foreign2,        \* frames an implementation that breaks the rules sends
          Table,           \* the header fields in use: a sequence of [name, value]
          PseudoNames, InvalidNames, InvalidValues,
                           \* which of their names begin with a colon, are no field
                           \* names on the wire; which of their values are no values
          MaxRead,         \* SetMaxReadFrameSize
          MaxHeaderList,   \* MaxHeaderListSize, in fields
          MaxFrames        \* bound: frames put on the wire
ASSUME FramerAssumption == MaxRead \in Nat /\ MaxHeaderList \in Nat /\ MaxFrames \in Nat

VARIABLES wire2,           \* the frames not yet read
          meant,           \* what the frames written so far mean to a reader
          fr,              \* the reader
          read             \* what ReadFrame returned, call by call

framerVars == <<wire2, meant, fr, read>>

DATA == 0           HEADERS == 1     PRIORITY == 2       RST_STREAM == 3
SETTINGS == 4       PUSH_PROMISE == 5  PING == 6         GOAWAY == 7
WINDOW_UPDATE == 8  CONTINUATION == 9
END_STREAM == 1     ACK == 1         END_HEADERS == 4    PADDED == 8
HAS_PRIORITY == 32
INITIAL_WINDOW_SIZE == 4
Zero == Word(0)

Flag(f, set) == IF set THEN {f} ELSE {}
ValidStreamIDOrZero(w) == ~High(w)
ValidStreamID(w) == w # Zero /\ ~High(w)

-----------------------------------------------------------------------------
(* Writing.                                                                 *)

Fails(e) == [err |-> e]
\* startWrite and endWrite.
Wrote(t, flags, sid, p) ==
  IF Len(p) >= 2^24 THEN Fails("frame too large")
  ELSE [err |-> "", frame |-> [typ |-> t, flags |-> flags, sid |-> sid, p |-> p]]

NoPriority == [dep |-> Zero, exclusive |-> FALSE, weight |-> 0]
PriorityOctets(prio) == (IF prio.exclusive THEN SetHigh(prio.dep) ELSE prio.dep) \o <<prio.weight>>

\* pad is written if it is not nil, were it empty.
WriteDataPadded(c) ==
  IF ~ValidStreamID(c.sid) THEN Fails("stream ID")
  ELSE IF Len(c.pad) > 255 THEN Fails("pad length")
  ELSE IF ToSet(c.pad) \ {0} # {} THEN Fails("pad bytes")
  ELSE Wrote(DATA, Flag(END_STREAM, c.end) \cup Flag(PADDED, c.padded), c.sid,
             If(c.padded, <<Len(c.pad)>>) \o c.data \o c.pad)

WriteSettings(c) ==
  Wrote(SETTINGS, {}, Zero,
        FlattenSeq([i \in DOMAIN c.settings |-> Bytes(c.settings[i].id, 2) \o c.settings[i].val]))
WriteSettingsAck(c) == Wrote(SETTINGS, {ACK}, Zero, <<>>)
WritePing(c) == Wrote(PING, Flag(ACK, c.ack), Zero, c.data)
WriteGoAway(c) == Wrote(GOAWAY, {}, Zero, Mask(c.last) \o c.code \o c.debug)

WriteWindowUpdate(c) ==
  IF c.incr = Zero \/ High(c.incr) THEN Fails("window increment")
  ELSE Wrote(WINDOW_UPDATE, {}, c.sid, c.incr)

WriteHeaders(c) ==
  IF ~ValidStreamID(c.sid) THEN Fails("stream ID")
  ELSE IF c.prio # NoPriority /\ ~ValidStreamIDOrZero(c.prio.dep) THEN Fails("dependent stream ID")
  ELSE Wrote(HEADERS,
             Flag(PADDED, c.padLength # 0) \cup Flag(END_STREAM, c.end)
               \cup Flag(END_HEADERS, c.endHeaders)
               \cup Flag(HAS_PRIORITY, c.prio # NoPriority),
             c.sid,
             If(c.padLength # 0, <<c.padLength>>)
               \o If(c.prio # NoPriority, PriorityOctets(c.prio))
               \o c.block \o Zeros(c.padLength))

WritePriority(c) ==
  IF ~ValidStreamID(c.sid) THEN Fails("stream ID")
  ELSE IF ~ValidStreamIDOrZero(c.prio.dep) THEN Fails("dependent stream ID")
  ELSE Wrote(PRIORITY, {}, c.sid, PriorityOctets(c.prio))

WriteRSTStream(c) ==
  IF ~ValidStreamID(c.sid) THEN Fails("stream ID") ELSE Wrote(RST_STREAM, {}, c.sid, c.code)

WriteContinuation(c) ==
  IF ~ValidStreamID(c.sid) THEN Fails("stream ID")
  ELSE Wrote(CONTINUATION, Flag(END_HEADERS, c.endHeaders), c.sid, c.block)

WritePushPromise(c) ==
  IF ~ValidStreamID(c.sid) \/ ~ValidStreamID(c.promise) THEN Fails("stream ID")
  ELSE Wrote(PUSH_PROMISE, Flag(PADDED, c.padLength # 0) \cup Flag(END_HEADERS, c.endHeaders),
             c.sid,
             If(c.padLength # 0, <<c.padLength>>) \o c.promise \o c.block \o Zeros(c.padLength))

WriteRawFrame(c) == Wrote(c.typ, c.flags, c.sid, c.data)

Write(c) ==
  CASE c.call = "Data" -> WriteDataPadded(c)
    [] c.call = "Settings" -> WriteSettings(c)
    [] c.call = "SettingsAck" -> WriteSettingsAck(c)
    [] c.call = "Ping" -> WritePing(c)
    [] c.call = "GoAway" -> WriteGoAway(c)
    [] c.call = "WindowUpdate" -> WriteWindowUpdate(c)
    [] c.call = "Headers" -> WriteHeaders(c)
    [] c.call = "Priority" -> WritePriority(c)
    [] c.call = "RSTStream" -> WriteRSTStream(c)
    [] c.call = "Continuation" -> WriteContinuation(c)
    [] c.call = "PushPromise" -> WritePushPromise(c)
    [] c.call = "RawFrame" -> WriteRawFrame(c)

-----------------------------------------------------------------------------
(* Parsing one frame, its stream's word masked by readFrameHeader.          *)

Ok(f) == [err |-> "", frame |-> f]
ConnError(code) == [err |-> "connection", code |-> code]
StreamError(sid, code) == [err |-> "stream", code |-> code, sid |-> sid]
ShortPayload == [err |-> "unexpected EOF"]

ParseDataFrame(f) ==
  LET padded == PADDED \in f.flags
      body == IF padded THEN Tail(f.p) ELSE f.p
      pad == IF padded THEN f.p[1] ELSE 0
  IN IF f.sid = Zero THEN ConnError("PROTOCOL")
     ELSE IF padded /\ f.p = <<>> THEN ShortPayload
     ELSE IF pad > Len(body) THEN ConnError("PROTOCOL")
     ELSE Ok([typ |-> DATA, sid |-> f.sid, end |-> END_STREAM \in f.flags,
              data |-> SubSeq(body, 1, Len(body) - pad)])

SettingsOf(p) ==
  [i \in 1..(Len(p) \div 6) |-> [id |-> Num(SubSeq(p, 6 * i - 5, 6 * i - 4)),
                                 val |-> SubSeq(p, 6 * i - 3, 6 * i)]]
\* Value finds the first setting of that name.
TooLargeWindow(ss) ==
  \E i \in DOMAIN ss : /\ ss[i].id = INITIAL_WINDOW_SIZE /\ High(ss[i].val)
                       /\ \A j \in 1..(i - 1) : ss[j].id # INITIAL_WINDOW_SIZE
ParseSettingsFrame(f) ==
  IF ACK \in f.flags /\ f.p # <<>> THEN ConnError("FRAME_SIZE")
  ELSE IF f.sid # Zero THEN ConnError("PROTOCOL")
  ELSE IF Len(f.p) % 6 # 0 THEN ConnError("FRAME_SIZE")
  ELSE IF TooLargeWindow(SettingsOf(f.p)) THEN ConnError("FLOW_CONTROL")
  ELSE Ok([typ |-> SETTINGS, sid |-> Zero, ack |-> ACK \in f.flags, settings |-> SettingsOf(f.p)])

ParsePingFrame(f) ==
  IF Len(f.p) # 8 THEN ConnError("FRAME_SIZE")
  ELSE IF f.sid # Zero THEN ConnError("PROTOCOL")
  ELSE Ok([typ |-> PING, sid |-> Zero, ack |-> ACK \in f.flags, data |-> f.p])

ParseGoAwayFrame(f) ==
  IF f.sid # Zero THEN ConnError("PROTOCOL")
  ELSE IF Len(f.p) < 8 THEN ConnError("FRAME_SIZE")
  ELSE Ok([typ |-> GOAWAY, sid |-> Zero, last |-> Mask(SubSeq(f.p, 1, 4)),
           code |-> SubSeq(f.p, 5, 8), debug |-> From(f.p, 9)])

ParseWindowUpdateFrame(f) ==
  IF Len(f.p) # 4 THEN ConnError("FRAME_SIZE")
  ELSE IF Mask(f.p) # Zero THEN Ok([typ |-> WINDOW_UPDATE, sid |-> f.sid, incr |-> Mask(f.p)])
  ELSE IF f.sid = Zero THEN ConnError("PROTOCOL")
  ELSE StreamError(f.sid, "PROTOCOL")

\* A dependency and its weight.
PriorityOf(p) == [dep |-> Mask(SubSeq(p, 1, 4)), exclusive |-> High(p), weight |-> p[5]]

ParseHeadersFrame(f) ==
  LET padded == PADDED \in f.flags
      prio == HAS_PRIORITY \in f.flags
      q == IF padded THEN Tail(f.p) ELSE f.p
      body == IF prio THEN From(q, 6) ELSE q
      pad == IF padded THEN f.p[1] ELSE 0
  IN IF f.sid = Zero THEN ConnError("PROTOCOL")
     ELSE IF padded /\ f.p = <<>> THEN ShortPayload
     ELSE IF prio /\ Len(q) < 5 THEN ShortPayload
     ELSE IF Len(body) <= pad THEN StreamError(f.sid, "PROTOCOL")
     ELSE Ok([typ |-> HEADERS, sid |-> f.sid, end |-> END_STREAM \in f.flags,
              endHeaders |-> END_HEADERS \in f.flags,
              prio |-> IF prio THEN PriorityOf(q) ELSE NoPriority,
              block |-> SubSeq(body, 1, Len(body) - pad)])

ParsePriorityFrame(f) ==
  IF f.sid = Zero THEN ConnError("PROTOCOL")
  ELSE IF Len(f.p) # 5 THEN ConnError("FRAME_SIZE")
  ELSE Ok([typ |-> PRIORITY, sid |-> f.sid, prio |-> PriorityOf(f.p)])

ParseRSTStreamFrame(f) ==
  IF Len(f.p) # 4 THEN ConnError("FRAME_SIZE")
  ELSE IF f.sid = Zero THEN ConnError("PROTOCOL")
  ELSE Ok([typ |-> RST_STREAM, sid |-> f.sid, code |-> f.p])

ParseContinuationFrame(f) ==
  IF f.sid = Zero THEN ConnError("PROTOCOL")
  ELSE Ok([typ |-> CONTINUATION, sid |-> f.sid, endHeaders |-> END_HEADERS \in f.flags,
           block |-> f.p])

ParsePushPromise(f) ==
  LET padded == PADDED \in f.flags
      q == IF padded THEN Tail(f.p) ELSE f.p
      body == From(q, 5)
      pad == IF padded THEN f.p[1] ELSE 0
  IN IF f.sid = Zero THEN ConnError("PROTOCOL")
     ELSE IF padded /\ f.p = <<>> THEN ShortPayload
     ELSE IF Len(q) < 4 THEN ShortPayload
     ELSE IF pad > Len(body) THEN ConnError("PROTOCOL")
     ELSE Ok([typ |-> PUSH_PROMISE, sid |-> f.sid, promise |-> Mask(SubSeq(q, 1, 4)),
              endHeaders |-> END_HEADERS \in f.flags,
              block |-> SubSeq(body, 1, Len(body) - pad)])

ParseUnknownFrame(f) == Ok([typ |-> f.typ, sid |-> f.sid, data |-> f.p])

TypeFrameParser(f) ==
  CASE f.typ = DATA -> ParseDataFrame(f)
    [] f.typ = HEADERS -> ParseHeadersFrame(f)
    [] f.typ = PRIORITY -> ParsePriorityFrame(f)
    [] f.typ = RST_STREAM -> ParseRSTStreamFrame(f)
    [] f.typ = SETTINGS -> ParseSettingsFrame(f)
    [] f.typ = PUSH_PROMISE -> ParsePushPromise(f)
    [] f.typ = PING -> ParsePingFrame(f)
    [] f.typ = GOAWAY -> ParseGoAwayFrame(f)
    [] f.typ = WINDOW_UPDATE -> ParseWindowUpdateFrame(f)
    [] f.typ = CONTINUATION -> ParseContinuationFrame(f)
    [] OTHER -> ParseUnknownFrame(f)

\* checkFrameOrder: lastHeaderStream is the stream of the block that is being
\* read, Zero if none is.
InOrder(f, lastHeaderStream) ==
  IF lastHeaderStream # Zero THEN f.typ = CONTINUATION /\ f.sid = lastHeaderStream
  ELSE f.typ # CONTINUATION
NextHeaderStream(f, lastHeaderStream) ==
  IF f.typ \in {HEADERS, CONTINUATION}
  THEN IF f.endHeaders THEN Zero ELSE f.sid
  ELSE lastHeaderStream

-----------------------------------------------------------------------------
(* Header blocks.                                                           *)

\* What HPACK's encoder and decoder do with the fields of Table: the decoder
\* keeps an octet whose second half has not come.
FieldOctets(i) == <<2 * i, 2 * i + 1>>
BlockOf(fields) == FlattenSeq([i \in DOMAIN fields |-> FieldOctets(fields[i])])
FieldAt(b) == b[1] \div 2
IsFieldHead(o) == o % 2 = 0 /\ o \div 2 \in DOMAIN Table
RECURSIVE Decode(_)
Decode(b) ==
  IF Len(b) <= 1 THEN [bad |-> b # <<>> /\ ~IsFieldHead(b[1]), fields |-> <<>>, saved |-> b]
  ELSE IF ~IsFieldHead(b[1]) \/ b[2] # b[1] + 1
       THEN [bad |-> TRUE, fields |-> <<>>, saved |-> <<>>]
  ELSE LET d == Decode(From(b, 3)) IN [d EXCEPT !.fields = <<FieldAt(b)>> \o @]

\* The emit function readMetaFrame gives the decoder: it stops at the first
\* field that is invalid, out of its place or too much.
Emit0 == [kept |-> <<>>, sawRegular |-> FALSE, invalid |-> FALSE, truncated |-> FALSE]
EmitField(st, i) ==
  LET f == Table[i]
      pseudo == f.name \in PseudoNames
      bad == \/ f.value \in InvalidValues
             \/ pseudo /\ st.sawRegular
             \/ ~pseudo /\ f.name \in InvalidNames
      on == ~st.invalid /\ ~st.truncated
  IN [st EXCEPT
       !.sawRegular = @ \/ (on /\ ~pseudo),
       !.invalid = @ \/ (on /\ bad),
       !.truncated = @ \/ (on /\ ~bad /\ Len(st.kept) = MaxHeaderList),
       !.kept = IF on /\ ~bad /\ Len(@) < MaxHeaderList THEN Append(@, f) ELSE @]
Emit(fields) == FoldLeft(EmitField, Emit0, fields)

RequestPseudos == {":method", ":path", ":scheme", ":authority"}
PseudoFields(kept) == SelectSeq(kept, LAMBDA f : f.name \in PseudoNames)
RegularFields(kept) == SelectSeq(kept, LAMBDA f : f.name \notin PseudoNames)
CheckPseudos(kept) ==
  LET pf == PseudoFields(kept)
      names == {pf[i].name : i \in DOMAIN pf}
  IN /\ names \subseteq RequestPseudos \cup {":status"}
     /\ Cardinality(names) = Len(pf)
     /\ ~(":status" \in names /\ names \cap RequestPseudos # {})
PseudoValue(m, name) ==
  LET pf == PseudoFields(m.fields)
  IN IF \E i \in DOMAIN pf : pf[i].name = name
     THEN pf[CHOOSE i \in DOMAIN pf : pf[i].name = name /\ \A j \in 1..(i - 1) : pf[j].name # name].value
     ELSE ""

\* The end of readMetaFrame: hf began the block, its fragments held fields.
MetaFrame(hf, fields, saved) ==
  LET st == Emit(fields)
  IN IF saved # <<>> THEN ConnError("COMPRESSION")
     ELSE IF st.invalid \/ ~CheckPseudos(st.kept) THEN StreamError(hf.sid, "PROTOCOL")
     ELSE Ok([typ |-> HEADERS, sid |-> hf.sid, end |-> hf.end, prio |-> hf.prio,
              fields |-> st.kept, truncated |-> st.truncated])

-----------------------------------------------------------------------------
(* The two ends.                                                            *)

NoBlock == [typ |-> -1]
FramerInit ==
  /\ wire2 = <<>> /\ meant = <<>> /\ read = <<>>
  /\ fr = [last |-> Zero,      \* lastHeaderStream
            hf |-> NoBlock,     \* the HEADERS whose block is being read, by readMetaFrame
            fields |-> <<>>,    \* what the decoder made of its fragments
            saved |-> <<>>,     \* what the decoder keeps
            dead |-> FALSE,     \* ReadFrame returned a terminal error
            sent |-> 0,         \* frames written
            foreign |-> FALSE]  \* some of them against the rules

\* What a frame written by call c means to its reader.
Meaning(c) ==
  LET sid == c.sid
  IN CASE c.call = "Data" -> [typ |-> DATA, sid |-> sid, end |-> c.end, data |-> c.data]
       [] c.call = "Settings" -> [typ |-> SETTINGS, sid |-> Zero, ack |-> FALSE, settings |-> c.settings]
       [] c.call = "SettingsAck" -> [typ |-> SETTINGS, sid |-> Zero, ack |-> TRUE, settings |-> <<>>]
       [] c.call = "Ping" -> [typ |-> PING, sid |-> Zero, ack |-> c.ack, data |-> c.data]
       [] c.call = "GoAway" -> [typ |-> GOAWAY, sid |-> Zero, last |-> Mask(c.last),
                                code |-> c.code, debug |-> c.debug]
       [] c.call = "WindowUpdate" -> [typ |-> WINDOW_UPDATE, sid |-> sid, incr |-> c.incr]
       [] c.call = "Headers" -> [typ |-> HEADERS, sid |-> sid, end |-> c.end, prio |-> c.prio,
                                 fields |-> Emit(Decode(c.block).fields).kept,
                                 truncated |-> Emit(Decode(c.block).fields).truncated]
       [] c.call = "Priority" -> [typ |-> PRIORITY, sid |-> sid, prio |-> c.prio]
       [] c.call = "RSTStream" -> [typ |-> RST_STREAM, sid |-> sid, code |-> c.code]
       [] c.call = "PushPromise" -> [typ |-> PUSH_PROMISE, sid |-> sid, promise |-> c.promise,
                                     endHeaders |-> c.endHeaders, block |-> c.block]
       [] c.call = "RawFrame" -> [typ |-> c.typ, sid |-> sid, data |-> c.data]

Room(n) == fr.sent + n <= MaxFrames

WriteFrame ==
  \E c \in Calls :
    LET w == Write(c)
    IN /\ Room(1) /\ w.err = ""
       /\ wire2' = Append(wire2, w.frame)
       /\ meant' = Append(meant, Meaning(c))
       /\ fr' = [fr EXCEPT !.sent = @ + 1]
       /\ UNCHANGED read

\* A frame that no call of Write makes in this place.
WriteForeign ==
  \E f \in Foreign2 :
    /\ Room(1)
    /\ wire2' = Append(wire2, f)
    /\ fr' = [fr EXCEPT !.sent = @ + 1, !.foreign = TRUE]
    /\ UNCHANGED <<meant, read>>

\* readHeaderFrame, the type's parser and checkFrameOrder on frame f.
ReadRaw(f) ==
  LET g == [f EXCEPT !.sid = Mask(@)]
      r == TypeFrameParser(g)
  IN IF Len(f.p) > MaxRead THEN Fails("frame too large")
     ELSE IF r.err # "" THEN r
     ELSE IF ~InOrder(r.frame, fr.last) THEN ConnError("PROTOCOL")
     ELSE r

\* ReadFrame returns r.
Return(r, last) ==
  /\ read' = Append(read, r)
  /\ fr' = [fr EXCEPT !.last = last, !.hf = NoBlock, !.dead = r.err \notin {"", "stream"}]

\* readMetaFrame has one more fragment of the block hf began.
ReadFragment(hf, fields, frag, ended, last) ==
  LET d == Decode(fr.saved \o frag)
      all == fields \o d.fields
  IN IF d.bad THEN Return(ConnError("COMPRESSION"), last)
     ELSE IF ended
     THEN LET r == MetaFrame(hf, all, d.saved)
          IN /\ read' = Append(read, r)
             /\ fr' = [fr EXCEPT !.last = last, !.hf = NoBlock, !.saved = <<>>,
                                 !.fields = <<>>, !.dead = r.err \notin {"", "stream"}]
     ELSE /\ fr' = [fr EXCEPT !.last = last, !.hf = hf, !.fields = all, !.saved = d.saved]
          /\ UNCHANGED read

\* One frame is read, by ReadFrame or by readMetaFrame inside it.
ReadFrame ==
  /\ ~fr.dead /\ wire2 # <<>>
  /\ wire2' = Tail(wire2)
  /\ LET r == ReadRaw(Head(wire2))
         f == r.frame
         last == NextHeaderStream(f, fr.last)
     IN IF r.err # "" THEN Return(r, fr.last)
        ELSE IF f.typ = HEADERS THEN ReadFragment(f, <<>>, f.block, f.endHeaders, last)
        ELSE IF f.typ = CONTINUATION /\ fr.hf # NoBlock
        THEN ReadFragment(fr.hf, fr.fields, f.block, f.endHeaders, last)
        ELSE Return(r, last)
  /\ UNCHANGED meant

-----------------------------------------------------------------------------
(* Properties.                                                              *)

OnStream == {DATA, HEADERS, PRIORITY, RST_STREAM, PUSH_PROMISE, CONTINUATION}
OnConnection == {SETTINGS, PING, GOAWAY}

\* What ReadFrame may return to the code above it, whoever wrote the frame.
Sound(f) ==
  /\ f.typ \in OnStream => ValidStreamID(f.sid)
  /\ f.typ \in OnConnection => f.sid = Zero
  /\ f.typ = WINDOW_UPDATE => f.incr # Zero /\ ~High(f.incr)
  /\ f.typ = GOAWAY => ~High(f.last)
  /\ f.typ = SETTINGS => /\ f.ack => f.settings = <<>>
                         /\ ~TooLargeWindow(f.settings)
  /\ f.typ = HEADERS =>
       LET n == Len(PseudoFields(f.fields))
       IN /\ Len(f.fields) <= MaxHeaderList
          /\ \A i \in DOMAIN f.fields : (f.fields[i].name \in PseudoNames) <=> i <= n
          /\ \A i, j \in 1..n : f.fields[i].name = f.fields[j].name => i = j
          /\ \A i \in DOMAIN f.fields : f.fields[i].value \notin InvalidValues
          /\ \A i \in (n + 1)..Len(f.fields) : f.fields[i].name \notin InvalidNames

\* Part of RequestsArrive.  Frames written by the Write methods in an order HTTP/2 allows
\* are read, one by one and in order, as what they were written for, however
\* a header block is padded and split; and whatever frames arrive, those
\* returned meet the rules the code above relies on (h2_bundle.go: the Write
\* methods against the parsers, checkFrameOrder, readMetaFrame).
FramesAgree ==
  /\ ~fr.foreign => /\ Len(read) <= Len(meant) /\ ~fr.dead
                    /\ \A i \in DOMAIN read : read[i] = Ok(meant[i])
                    /\ wire2 = <<>> => Len(read) = Len(meant) /\ fr.last = Zero
  /\ \A i \in DOMAIN read : read[i].err = "" => Sound(read[i].frame)

=============================================================================
