----------------------------- MODULE JsonFramer -----------------------------
(***************************************************************************)
(* The JSON framer of the nl_json_rpc dialect: incremental_buffers         *)
(* (src/include/packio/nl_json_rpc/incremental_buffers.h).  The session    *)
(* feeds it the bytes of each read; it cuts complete JSON values out of    *)
(* the stream by counting the opening character and its closer outside     *)
(* strings, and queues them for get_parsed_buffer.                         *)
(*                                                                         *)
(* A byte is a one-character string; a buffer is a sequence of them.  The  *)
(* environment feeds a stream made of whole messages of Msgs, cut into     *)
(* chunks anywhere (SplitChunks) or only between messages.  Positions are  *)
(* kept 0-based as in the code, and std::string::npos is -1.               *)
(***************************************************************************)
EXTENDS Integers, Sequences, SequencesExt

CONSTANTS
    Msgs,         \* the messages the peer sends, as byte sequences
    MaxMsgs,      \* how many of them one stream holds
    SplitChunks   \* a read may end inside a message

ASSUME MaxMsgsAssumption == MaxMsgs \in Nat
ASSUME SplitChunksAssumption == SplitChunks \in BOOLEAN

Quote == "\""
Backslash == "\\"
Openers == {"{", "["}
CloserOf == [c \in Openers |-> IF c = "{" THEN "}" ELSE "]"]
Npos == -1

VARIABLES
    buf,       \* buffer_: the bytes of the value in progress
    inString,  \* in_string_
    depth,     \* depth_
    firstChar, \* first_char_ (last_char_ and tokens_ follow from it)
    objects,   \* serialized_objects_
    input,     \* the messages the peer has still to send
    fed,       \* every byte fed so far
    taken      \* the buffers get_parsed_buffer has returned

vars == <<buf, inString, depth, firstChar, objects, input, fed, taken>>

-----------------------------------------------------------------------------
(* Helpers on byte buffers.                                               *)

\* find_first_of(set, from): the first position >= from holding a byte of
\* set, or npos.
FindFirstOf(b, set, from) ==
    SelectInSubSeq(b, from + 1, Len(b), LAMBDA ch : ch \in set) - 1

\* initialize: the token set is the opener, its closer and the quote.
Tokens(f) == {f, CloserOf[f], Quote}

\* Mutation of is_escaped: a quote is escaped as soon as a backslash
\* precedes it, whatever the parity of the run of backslashes.
IsEscapedAny(b, pos) == pos > 0 /\ b[pos] = Backslash

\* is_escaped(pos): an odd run of backslashes right before pos.
IsEscaped(b, pos) ==
    LET lastOther == SelectLastInSubSeq(b, 1, pos, LAMBDA ch : ch # Backslash)
    IN (pos - lastOther) % 2 = 1

\* One turn of the loop of incremental_parse, on the token found at p.  A
\* closer that brings the depth to zero cuts buffer_ after it: the value
\* goes to serialized_objects_, the rest becomes buffer_, and token_pos
\* moves back by the size cut (to -1, so that the search resumes at 0).
ScanStep(st, f, p) ==
    LET t == st.buf[p + 1] IN
    CASE t = Quote /\ ~IsEscaped(st.buf, p) ->
            [st EXCEPT !.pos = p, !.inStr = ~st.inStr]
      [] st.inStr ->
            [st EXCEPT !.pos = p]
      [] t = CloserOf[f] /\ st.depth - 1 = 0 ->
            [st EXCEPT !.pos = p - (p + 1), !.depth = 0,
                       !.buf = SubSeq(st.buf, p + 2, Len(st.buf)),
                       !.objs = Append(st.objs, SubSeq(st.buf, 1, p + 1))]
      [] t = CloserOf[f] ->
            [st EXCEPT !.pos = p, !.depth = st.depth - 1]
      [] OTHER ->
            [st EXCEPT !.pos = p, !.depth = st.depth + 1]

\* The while (true) loop: search the next token after token_pos.
RECURSIVE Scan(_, _)
Scan(st, f) ==
    LET p == FindFirstOf(st.buf, Tokens(f), st.pos + 1) IN
    IF p = Npos THEN st ELSE Scan(ScanStep(st, f, p), f)

-----------------------------------------------------------------------------
(* Operations.                                                             *)

\* feed(data) with data non-empty: reserve and copy the bytes after
\* buffer_ (the spare capacity of raw_buffer_ is never read), then
\* incremental_parse.  With buffer_ empty, a chunk with no '{' or '[' is
\* left where it is and overwritten by the next one; otherwise initialize
\* from the first opener, with buffer_ starting at the start of the chunk.
\* The scan starts after token_pos = the old size of buffer_.
Parse(data) ==
    LET fresh == buf = <<>>
        fp == FindFirstOf(data, Openers, 0)
        f == IF fresh THEN data[fp + 1] ELSE firstChar
        st0 == IF fresh
               THEN [buf |-> data, pos |-> 0, depth |-> 1, inStr |-> FALSE,
                     objs |-> objects]
               ELSE [buf |-> buf \o data, pos |-> Len(buf), depth |-> depth,
                     inStr |-> inString, objs |-> objects]
        st == Scan(st0, f)
    IN IF fresh /\ fp = Npos
       THEN UNCHANGED <<buf, inString, depth, firstChar, objects>>
       ELSE /\ buf' = st.buf
            /\ inString' = st.inStr
            /\ depth' = st.depth
            /\ firstChar' = f
            /\ objects' = st.objs

\* A read completes with the next k bytes of the stream.
Feed ==
    /\ input # <<>>
    /\ LET m == Head(input) IN
       \E k \in IF SplitChunks THEN 1 .. Len(m) ELSE {Len(m)} :
          /\ Parse(SubSeq(m, 1, k))
          /\ fed' = fed \o SubSeq(m, 1, k)
          /\ input' = IF k = Len(m) THEN Tail(input)
                      ELSE <<SubSeq(m, k + 1, Len(m))>> \o Tail(input)
    /\ UNCHANGED taken

\* get_parsed_buffer: pop the oldest value, if any.
GetParsedBuffer ==
    /\ objects # <<>>
    /\ taken' = Append(taken, Head(objects))
    /\ objects' = Tail(objects)
    /\ UNCHANGED <<buf, inString, depth, firstChar, input, fed>>

\* A fresh framer; first_char_ and depth_ are not initialised by the
\* class and are never read before initialize sets them.
Init ==
    /\ buf = <<>>
    /\ inString = FALSE
    /\ depth = 0
    /\ firstChar \in Openers
    /\ objects = <<>>
    /\ input \in UNION {[1 .. n -> Msgs] : n \in 0 .. MaxMsgs}
    /\ fed = <<>>
    /\ taken = <<>>

Next == Feed \/ GetParsedBuffer

Spec == Init /\ [][Next]_vars

-----------------------------------------------------------------------------
(* The reference: the framing spec.md 4.2 describes, one byte at a time.  *)
(* Bytes before an opener are discarded; inside a value a quote not       *)
(* escaped toggles the string, a backslash in a string escapes the next   *)
(* byte, and the value ends at the closer that brings the depth to zero.  *)

RefStep(r, ch) ==
    IF r.open = "none"
    THEN IF ch \in Openers
         THEN [r EXCEPT !.open = ch, !.depth = 1, !.cur = <<ch>>]
         ELSE r
    ELSE LET r1 == [r EXCEPT !.cur = Append(r.cur, ch)] IN
         IF r.inStr
         THEN IF r.esc THEN [r1 EXCEPT !.esc = FALSE]
              ELSE IF ch = Backslash THEN [r1 EXCEPT !.esc = TRUE]
              ELSE IF ch = Quote THEN [r1 EXCEPT !.inStr = FALSE]
              ELSE r1
         ELSE IF ch = Quote THEN [r1 EXCEPT !.inStr = TRUE]
         ELSE IF ch = r.open THEN [r1 EXCEPT !.depth = r.depth + 1]
         ELSE IF ch = CloserOf[r.open] /\ r.depth = 1
              THEN [r1 EXCEPT !.open = "none", !.depth = 0, !.cur = <<>>,
                              !.out = Append(r.out, r1.cur)]
         ELSE IF ch = CloserOf[r.open] THEN [r1 EXCEPT !.depth = r.depth - 1]
         ELSE r1

RefFrames(s) ==
    FoldLeft(RefStep, [open |-> "none", depth |-> 0, inStr |-> FALSE,
                       esc |-> FALSE, cur |-> <<>>, out |-> <<>>], s).out

\* A buffer from its first opener on (the framer may keep the separators
\* that precede a value inside the buffer it emits).
FromOpener(b) ==
    LET i == SelectInSeq(b, LAMBDA ch : ch \in Openers)
    IN IF i = 0 THEN b ELSE SubSeq(b, i, Len(b))

Delivered == taken \o objects

-----------------------------------------------------------------------------
(* Properties.                                                             *)

\* Framing round trip (spec.md 8): whatever the chunks the reads cut the
\* stream into, the buffers incremental_buffers has produced, taken or
\* still queued, are exactly the values complete in the bytes fed so far,
\* in order: none lost, none merged, no prefix of a value.
FramesMatchReference ==
    [i \in 1 .. Len(Delivered) |-> FromOpener(Delivered[i])] = RefFrames(fed)

=============================================================================
