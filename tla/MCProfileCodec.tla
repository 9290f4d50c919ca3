---------------------------- MODULE MCProfileCodec ----------------------------
\* Small profiles for ProfileCodec: one to four keys, identities that differ
\* in each part, and lengths at both ends of every limit.
EXTENDS ProfileCodec

Key(credential, ciphertext) ==
    [credential |-> credential, publicKey |-> 3, salt |-> 2, nonce |-> 1,
     tag |-> 0, ciphertext |-> ciphertext]

MCSids     == {<<1>>, <<1, 2>>}
MCAccounts == {<<2>>, <<2, 2>>}
MCKeys     == {Key(<<1>>, <<4>>), Key(<<2, 1>>, <<4, 4>>), Key(<<0>>, <<4, 0>>),
               Key(<<0, 0>>, <<1, 1>>)}

MCCells    == {0, 1, 2, 10, Magic(1), Multi}

MCProfiles ==
    [kind : Kinds, sid : {<<1, 2>>, <<3>>}, account : {<<2>>},
     keys : [1 .. 1 -> MCKeys]]
    \cup [kind : {2}, sid : {<<1>>}, account : {<<2, 2>>},
          keys : UNION {[1 .. n -> MCKeys] : n \in 2 .. 4}]

===============================================================================
