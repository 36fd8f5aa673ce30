------------------------- MODULE MCHttpStreamParser -------------------------
(***************************************************************************)
(* Small instances of HttpStreamParser: every stream made of at most       *)
(* MaxPieces pieces, or of a header block and at most MaxAfterBlock, cut   *)
(* anywhere, and streams of whole messages.                                *)
(***************************************************************************)
EXTENDS HttpStreamParser, TLC

CONSTANTS MaxPieces, MaxAfterBlock

Digits == {"0", "1", "2", "3", "4"}
DigitValue == ("0" :> 0) @@ ("1" :> 1) @@ ("2" :> 2) @@ ("3" :> 3) @@ ("4" :> 4)

Pieces == {<<LENGTH, COLON, SPACE, "1">>, <<"x", COLON>>,
           <<CR, LF>>, <<CR>>, <<LF>>, <<SPACE>>, <<"x">>}
EndOfBlock == <<CR, LF, CR, LF>>

\* Header blocks that announce one byte, none, a negative number, nothing, no
\* number and one that is no int, and with types that are and are not known.
Blocks == {<<LENGTH, COLON, SPACE, "1">> \o EndOfBlock,
           <<LENGTH, COLON, "0">> \o EndOfBlock,
           <<LENGTH, COLON, MINUS, "2">> \o EndOfBlock,
           <<"x", COLON>> \o EndOfBlock,
           <<LENGTH, COLON, "y">> \o EndOfBlock,
           <<LENGTH, COLON, "4">> \o EndOfBlock,
           <<TYPE, COLON, SPACE, UTF8, CR, LF, LENGTH, COLON, "1">>
             \o EndOfBlock,
           <<LENGTH, COLON, "1", CR, LF, TYPE, COLON, "x">> \o EndOfBlock}

RECURSIVE Concat(_)
Concat(s) == IF s = <<>> THEN <<>> ELSE Head(s) \o Concat(Tail(s))
UpTo(max) == {Concat(s) : s \in UNION {[1..n -> Pieces] : n \in 1..max}}

Raw == [stream |-> <<>>, messages |-> <<>>, ends |-> <<>>, cuts |-> {},
        nested |-> FALSE]

\* What a transport is asked to send, with a data handler and without one:
\* bodies of different lengths, with bytes in them that mean something in a
\* header.
Sent(dataHandler, content) == [handler |-> dataHandler, content |-> content]
Sends == {<<Sent(TRUE, <<>>), Sent(TRUE, <<"x", CR>>), Sent(TRUE, <<LF>>)>>,
          <<Sent(TRUE, <<CR, LF, "x">>), Sent(FALSE, <<"x">>),
            Sent(TRUE, <<"y">>)>>,
          <<Sent(FALSE, <<LF>>), Sent(TRUE, <<"x">>), Sent(TRUE, <<"y">>),
            Sent(TRUE, <<>>)>>}
Written(sends) ==
  Concat([i \in DOMAIN sends |->
            SendMessage(sends[i].handler, sends[i].content)])
FramedFeeds ==
  {LET sent == SelectSeq(sends, LAMBDA x : x.handler)
       ends == [n \in DOMAIN sent |-> Len(Written(SubSeq(sent, 1, n)))]
   IN  [Raw EXCEPT !.stream = Written(sends),
                   !.messages = [n \in DOMAIN sent |-> sent[n].content],
                   !.ends = ends,
                   !.cuts = 0..Len(Written(sends))] : sends \in Sends}

\* The same, in chunks of whole messages, to handlers that run event loops.
NestedFeeds ==
  {[f EXCEPT !.nested = TRUE,
             !.cuts = {EndOf(f, n) : n \in 0..Len(f.messages)}]
     : f \in FramedFeeds}

\* Anything a peer may write, and a transport that sends more than an int can
\* say.
RawFeeds ==
  LET Streams == UpTo(MaxPieces)
                   \cup {b \o s : b \in Blocks, s \in UpTo(MaxAfterBlock)}
                   \cup {Written(<<Sent(TRUE, <<"x", "y", "x", "y">>),
                                  Sent(TRUE, <<"x">>)>>)}
  IN  {[Raw EXCEPT !.stream = s, !.cuts = 0..Len(s)] : s \in Streams}

AllFeeds == RawFeeds \cup FramedFeeds \cup NestedFeeds
=============================================================================
