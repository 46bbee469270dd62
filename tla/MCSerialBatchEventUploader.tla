---------------------- MODULE MCSerialBatchEventUploader ----------------------
(* Three enqueue() calls of one or two events and a few flush() calls. *)
EXTENDS SerialBatchEventUploader, TLC

CONSTANTS c1, c2, c3

MCEvents == 1..5

MCPayload == (c1 :> <<1, 2>>) @@ (c2 :> <<3>>) @@ (c3 :> <<4, 5>>)

\* Event 2 fills a batch of at most 3 bytes up to the last byte, event 5 is too large for
\* any batch.
MCBytes == [e \in MCEvents |-> CASE e = 2 -> 2 [] e = 5 -> 4 [] OTHER -> 1]
===============================================================================
