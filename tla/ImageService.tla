---------------------------- MODULE ImageService ----------------------------
(***************************************************************************)
(* What jpeg_driver promises, without threads, queues or a device: every   *)
(* image goes through an input and an output buffer of its own and is      *)
(* shown once its own pixels are in the output buffer; the service ends    *)
(* with success when all images have been served and with failure when it  *)
(* has given up.                                                           *)
(***************************************************************************)
EXTENDS Integers

CONSTANTS
  Images,      \* numbered in the order in which they are loaded
  Inputs,      \* the input buffers
  Outputs,     \* the output buffers
  NoBuffer,    \* the buffer of an image that has none
  NoImage      \* what has been shown of an image before it is shown

VARIABLES
  status,         \* how far each image is
  input, output,  \* the buffers it holds
  shown,          \* the image whose pixels have been shown for it
  gave_up,
  outcome

serviceVars == <<status, input, output, shown, gave_up, outcome>>

Init ==
  /\ status = [i \in Images |-> "waiting"]
  /\ input = [i \in Images |-> NoBuffer]
  /\ output = [i \in Images |-> NoBuffer]
  /\ shown = [i \in Images |-> NoImage]
  /\ gave_up = FALSE
  /\ outcome = "running"

Free(b, held) == \A i \in Images : held[i] # b

(* The next image in order gets an input buffer.                            *)
Take(i, b) ==
  /\ ~gave_up
  /\ status[i] = "waiting"
  /\ \A j \in Images : j < i => status[j] # "waiting"
  /\ Free(b, input)
  /\ status' = [status EXCEPT ![i] = "loaded"]
  /\ input' = [input EXCEPT ![i] = b]
  /\ UNCHANGED <<output, shown, gave_up, outcome>>

(* A loaded image gets an output buffer and may be decoded into it.         *)
Pair(i, b) ==
  /\ ~gave_up
  /\ status[i] = "loaded"
  /\ Free(b, output)
  /\ status' = [status EXCEPT ![i] = "decoding"]
  /\ output' = [output EXCEPT ![i] = b]
  /\ UNCHANGED <<input, shown, gave_up, outcome>>

(* A decoded image needs its input buffer no longer.                        *)
Decode(i) ==
  /\ ~gave_up
  /\ status[i] = "decoding"
  /\ status' = [status EXCEPT ![i] = "decoded"]
  /\ input' = [input EXCEPT ![i] = NoBuffer]
  /\ UNCHANGED <<output, shown, gave_up, outcome>>

(* Its pixels are shown from the output buffer; a thread that is about to   *)
(* show them does so even when the service has just given up.               *)
Show(i) ==
  /\ status[i] \in {"decoded", "given up"}
  /\ output[i] # NoBuffer
  /\ shown' = [shown EXCEPT ![i] = i]
  /\ UNCHANGED <<status, input, output, gave_up, outcome>>

(* An image that has been shown is served; its output buffer is free, or    *)
(* goes straight to an image that waits for one.                            *)
Serve(i) ==
  /\ ~gave_up
  /\ status[i] = "decoded"
  /\ shown[i] = i
  /\ \/ /\ status' = [status EXCEPT ![i] = "served"]
        /\ output' = [output EXCEPT ![i] = NoBuffer]
     \/ \E j \in Images :
          /\ status[j] = "loaded"
          /\ status' = [status EXCEPT ![i] = "served", ![j] = "decoding"]
          /\ output' = [output EXCEPT ![i] = NoBuffer, ![j] = output[i]]
  /\ UNCHANGED <<input, shown, gave_up, outcome>>

GiveUp ==
  /\ ~gave_up
  /\ gave_up' = TRUE
  /\ status' = [i \in Images |-> IF status[i] = "served" THEN "served" ELSE "given up"]
  /\ UNCHANGED <<input, output, shown, outcome>>

End ==
  /\ outcome = "running"
  /\ \/ outcome' = "EXIT_SUCCESS" /\ \A i \in Images : status[i] = "served"
     \/ outcome' = "EXIT_FAILURE" /\ gave_up
  /\ UNCHANGED <<status, input, output, shown, gave_up>>

Next ==
  \/ \E i \in Images, b \in Inputs : Take(i, b)
  \/ \E i \in Images, b \in Outputs : Pair(i, b)
  \/ \E i \in Images : Decode(i) \/ Show(i) \/ Serve(i)
  \/ GiveUp
  \/ End

Spec == Init /\ [][Next]_serviceVars
=============================================================================
