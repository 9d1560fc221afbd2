--------------------------- MODULE MCChannelBank ---------------------------
(***************************************************************************)
(* Small instances of ChannelBank.  Channel A has two frames and channel B *)
(* three; U16 = 3, so that B has as many frames as a u16 can number and    *)
(* its size wraps to 0.                                                    *)
(***************************************************************************)
EXTENDS ChannelBank

CONSTANTS A, B

MCChannelIds == {A, B}

Raw(id, number, last) ==
    [channel_id |-> id, frame_number |-> number,
     frame_data_len |-> IF id = A THEN 1 ELSE 2, is_last |-> last]

\* The frames of a batcher that follows the protocol.
MCRawFrames ==
    {Raw(A, 0, FALSE), Raw(A, 1, TRUE),
     Raw(B, 0, FALSE), Raw(B, 1, FALSE), Raw(B, 2, TRUE)}

Single(f) == <<f>>

\* One transaction with one frame per block, two blocks with several
\* transactions, one that does not parse, one without any frame.
MCBlockTxs ==
    {<<Single(f)>> : f \in RawFrames} \cup
    {<<>>,
     <<Single(BadFrame), Single(Raw(A, 1, TRUE)), Single(Raw(A, 0, FALSE))>>,
     <<<<>>, Single(Raw(B, 2, TRUE)), Single(Raw(B, 0, FALSE))>>}

\* As above, with a transaction of two frames.
MCMultiFrameBlockTxs ==
    {<<Single(Raw(B, 0, FALSE))>>, <<<<Raw(A, 0, FALSE), Raw(A, 1, TRUE)>>>>}

=============================================================================
