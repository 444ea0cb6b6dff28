------------------------------ MODULE MCReader ------------------------------
EXTENDS SerialPort

\* "12", and a tag that ends in a byte no text has.
MCPayloads == {<<49, 50>>, <<51, 1>>}
MCChunks   == {0, 2}
MCSpeeds   == {115200, 100}

\* What may follow on the line: after five arrivals no more fits.
Followed(tails) == tails \cup {FirstBytes(t \o g) : t \in tails, g \in Arrivals}
MCTails == Followed(Followed(Followed(Followed(Followed({<<>>})))))

\* Of these frames and of noise no beginning passes the checksum.
ASSUME Genuine == NoFalseFrame

\* Nor does anything else that they and their spoilt forms may be joined to.
ASSUME Detected == OnlyFramesPass(MCTails)
=============================================================================
