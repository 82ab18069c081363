-------------------------- MODULE MC_ControlEncoder --------------------------
EXTENDS ControlEncoder

\* HZ = 4 keeps the ages small; the ages straddle whole seconds.
MC_Ages == {0, 3, 4, 9}
\* A minimum frame, one longer than the usual max_len, the longest frame
\* whose unbuffered PACKET_IN is accepted, one whose PACKET_IN would be
\* 65528 bytes, and a GRO frame longer than 65535 bytes.
MC_FrameLens == {60, 200, 65509, 65510, 65536}
\* OFP_DEFAULT_MISS_SEND_LEN and the largest max_len.
MC_MaxLens == {128, 65535}
\* The shortest and the longest ECHO_REQUEST.
MC_EchoLens == {8, 65535}
MC_ErrDataLens == {64}
MC_Slots == {0, 1}
==============================================================================
