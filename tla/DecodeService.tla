---------------------------- MODULE DecodeService ----------------------------
(***************************************************************************)
(* What the accelerator promises its host, without registers, DMA or       *)
(* clock cycles: images are begun in the order in which they were ordered, *)
(* each by a decoder that has no other, and every answer is the next image *)
(* that was finished.  Several of these may happen at once.  Nothing       *)
(* pushes back: a full queue refuses an order, and an image that is        *)
(* finished while the queue of finished images is full is forgotten.       *)
(***************************************************************************)
EXTENDS Integers, Sequences

CONSTANTS
  Images,
  NoImage,   \* the image of a decoder that has none
  Decoders,
  Depth      \* of either queue

VARIABLES
  queue,     \* the images ordered and not yet begun
  work,      \* the image each decoder is at
  finished,  \* the images decoded and not yet asked for
  answer     \* the last of them the host was told

decodeVars == <<queue, work, finished, answer>>

(* The host's last program may have left images everywhere. *)
Init ==
  /\ queue \in Seq(Images) /\ Len(queue) <= Depth
  /\ work \in [Decoders -> Images \union {NoImage}]
  /\ finished \in Seq(Images) /\ Len(finished) <= Depth
  /\ answer = NoImage

(* A sequence of at most one element. *)
Optional(S) == {<<>>} \union {<<x>> : x \in S}

Rest(fifo, taken) == IF taken THEN Tail(fifo) ELSE fifo

(* The host may order an image and ask for one that is finished, a decoder  *)
(* may begin the next image and another may end its own.                    *)
Serve(order, begins, ends, asks) ==
  /\ order # <<>> => Len(queue) < Depth
  /\ begins # <<>> => queue # <<>> /\ work[begins[1]] = NoImage
  /\ ends # <<>> => work[ends[1]] # NoImage
  /\ asks => finished # <<>>
  /\ queue' = Rest(queue, begins # <<>>) \o order
  /\ work' = [s \in Decoders |-> CASE begins = <<s>> -> Head(queue)
                                [] ends = <<s>> -> NoImage
                                [] OTHER -> work[s]]
  /\ finished' = Rest(finished, asks) \o
                   (IF ends # <<>> /\ Len(finished) < Depth THEN <<work[ends[1]]>> ELSE <<>>)
  /\ answer' = IF asks THEN Head(finished) ELSE answer

(* Everything ordered is forgotten. *)
Reset ==
  /\ queue' = <<>> /\ finished' = <<>>
  /\ work' = [s \in Decoders |-> NoImage]
  /\ UNCHANGED answer

Next ==
  \/ Reset
  \/ \E order \in Optional(Images), begins, ends \in Optional(Decoders), asks \in BOOLEAN :
       Serve(order, begins, ends, asks)

Spec == Init /\ [][Next]_decodeVars
=============================================================================
