---- MODULE MCQuoteAppraisal ----
(* Two PCRs and two clients; structures with one and two PCR masks and a certified name,
   cut at every length, without the magic, and with one number replaced. *)
EXTENDS QuoteAppraisal

OneMask == [type |-> "quote", signer |-> 2, extra |-> 1, name |-> 0, masks |-> <<Slice(45, 3)>>, digest |-> 2]
TwoMasks == [type |-> "quote", signer |-> 0, extra |-> 2, name |-> 0, masks |-> <<Slice(44, 0), Slice(47, 3)>>, digest |-> 1]
Certify == [type |-> "certify", signer |-> 1, extra |-> 0, name |-> 3, masks |-> <<>>, digest |-> 0]
Messages == {OneMask, TwoMasks, Certify}

Buffer(m, len, magic, damage) == [message |-> m, len |-> len, magic |-> magic, damage |-> damage]
Cut == UNION {{Buffer(m, len, TRUE, {}) : len \in 0 .. FullLength(m)} : m \in Messages}
Huge == 70000
Damaged ==
    UNION {{Buffer(m, FullLength(m), TRUE, {<<f[1], n>>}) : f \in Fields(m), n \in {0, 4, Huge}}
           : m \in {OneMask, Certify}}
MCBuffers == Cut \cup Damaged \cup {Buffer(OneMask, FullLength(OneMask), FALSE, {})}
MCContents == [b \in MCBuffers |-> Encoded(b)]

MCLists == {<<>>, <<0>>, <<1, 0, 1>>, <<0, 2>>, <<-1>>, <<0, NotInt>>}
MCHashAlgs == {11, -1, NotInt}
====
