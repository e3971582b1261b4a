----------------------------- MODULE MessageTree ------------------------------
(***************************************************************************)
(* What a pbf_writer and the writers of its open submessages promise       *)
(* together: messages under construction, one inside the other, as if each *)
(* was written into a string of its own.  A submessage that is committed   *)
(* becomes a length-delimited field of the message around it, or nothing   *)
(* if it is empty; one that is rolled back leaves no trace.  If the buffer *)
(* is exhausted, a beginning of what was being added is left behind.       *)
(***************************************************************************)
EXTENDS WireFormat

CONSTANTS
  Pieces,  \* what can be added to a message at once: fields, packed elements
  Tags     \* the tags of submessages

VARIABLE frames  \* the open messages, the innermost one last

Outermost == [tag |-> 0, bytes |-> <<>>]

Init == frames = <<Outermost>>

Beginnings(b) == {SubSeq(b, 1, n) : n \in 0 .. Len(b) - 1}

\* The key of a submessage and the beginning of the place for its length.
Headers == {EncodeVarint(Key(t, LengthDelimited)) \o <<0>> : t \in Tags}

\* The innermost message gets one of the strings in bs at its end.
Grow(bs) ==
  /\ Len(frames') = Len(frames)
  /\ LET old == frames[Len(frames)].bytes
         new == frames'[Len(frames)].bytes
     IN /\ SubSeq(new, Len(old) + 1, Len(new)) \in bs
        /\ SubSeq(new, 1, Len(old)) = old
  /\ frames' = [frames EXCEPT ![Len(frames)].bytes = frames'[Len(frames)].bytes]

Add == Grow(Pieces)

Exhaust == Grow(UNION {Beginnings(p) : p \in Pieces \cup Headers})

Open == \E t \in Tags : frames' = frames \o <<[tag |-> t, bytes |-> <<>>]>>

\* The frame around the innermost one with b added to it, as the new innermost.
Close(b) ==
  /\ Len(frames) > 1
  /\ frames' = [Front(frames) EXCEPT ![Len(frames) - 1].bytes = @ \o b]

Commit ==
  LET child == frames[Len(frames)] IN
  Close(IF child.bytes = <<>> THEN <<>>
        ELSE FieldBytes([tag |-> child.tag, type |-> LengthDelimited,
                         payload |-> child.bytes]))

Rollback == Close(<<>>)

Next == Add \/ Exhaust \/ Open \/ Commit \/ Rollback

Spec == Init /\ [][Next]_frames

=============================================================================
