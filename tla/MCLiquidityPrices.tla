-------------------------- MODULE MCLiquidityPrices --------------------------
EXTENDS LiquidityPrices

In0(a) == [olasIn |-> a, ethIn |-> 0]
In1(a) == [olasIn |-> 0, ethIn |-> a]

\* No swap, swaps of one kind, and of both, with averages that round.
MCWindows ==
    {<<>>, <<In0(40)>>, <<In1(4), In1(3)>>,
     <<In0(20), In1(3), In0(11)>>, <<In1(2), In0(170), In1(3)>>}

\* One pool trades few OLAS per ETH, one many, one none.
MCPools == {[olas |-> 6000, eth |-> 200], [olas |-> 6050, eth |-> 59],
            [olas |-> 50, eth |-> 59]}
===============================================================================
