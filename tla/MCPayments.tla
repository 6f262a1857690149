----------------------------- MODULE MCPayments -----------------------------
(* The instance of Payments that TLC checks: two valid recipients and one  *)
(* text that is no address, one amount to send; three tokens, two of them  *)
(* scanned, and two amounts to swap one way.                               *)
EXTENDS Payments

MCAddresses == {"a1", "a2", "text"}
MCValidAddresses == {"a1", "a2"}
MCSums == {"1 SOL"}
MCTokens == {"SOL", "JUP", "BONK"}
MCSafeTokens == {"SOL"}
MCPicks == {[from |-> "SOL", to |-> "JUP"], [from |-> "SOL", to |-> "BONK"],
            [from |-> "JUP", to |-> "SOL"]}
MCAmounts == {"10", "20"}
MCMaxQuotes == 2
MCPayable == [to : MCValidAddresses, what : MCSums]
MCUnpayable == [to : MCAddresses \cup {None}, what : MCSums \cup {None}] \ MCPayable
MCOrders ==
    {[pair |-> [from |-> "SOL", to |-> "JUP"], amount |-> a] : a \in MCAmounts}
MCQuotes == [order : MCOrders, id : 1 .. MCMaxQuotes]
=============================================================================
