--------------------------- MODULE MCNoticeRuntime ---------------------------
(* Instances of NoticeRuntime for TLC. *)
EXTENDS NoticeRuntime

Of(what, id) == [of |-> what, id |-> id]

\* A book, a price of the other source, the trades of the asset, which come from
\* a third source, and the strategy's own inventory.
MCRequirements == {[kind |-> "PolymarketBbo", selector |-> Of("Asset", "yes")],
                   [kind |-> "ExternalReferencePrice", selector |-> Of("Symbol", "btc")],
                   [kind |-> "RecentTrades", selector |-> Of("Asset", "yes")],
                   [kind |-> "Inventory", selector |-> Of("Asset", "yes")]}
=============================================================================
