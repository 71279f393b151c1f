----------------------------- MODULE MCServices -----------------------------
EXTENDS Services

Of(slots, bond) == [slots |-> slots, bond |-> bond]

\* The first service has one or two agents, the second of them dropped or left out of a list;
\* the second service engages the same operators and instances.
MCAgentLists == <<{<<Of(1, 1), Of(1, 2)>>, <<Of(1, 2)>>, <<Of(2, 1), Of(0, 0)>>}, {<<Of(1, 2)>>}>>
MCSecurities == <<{NoToken, "olas", "usd"}, {"olas"}>>
=============================================================================
