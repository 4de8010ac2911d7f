------------------------- MODULE MCTriggerPipeline -------------------------
\* Configurations and books for TLC: a proxy wallet that buys at a threshold, one
\* that sells on a narrow spread, and a dry run without credentials.
EXTENDS TriggerPipeline

File == [private_key |-> "", api_key |-> "k", api_secret |-> "s", passphrase |-> "p",
         maker_address |-> "proxy"]

MCAddressOf == [pk |-> "eoa"]

Config(workers, file, env, dryRun, bindings, strategy) ==
    [file |-> file, env |-> env, dryRun |-> dryRun, strategy |-> strategy, feeRateBps |-> 0,
     negRisk |-> FALSE, assetIds |-> <<>>, bindings |-> bindings, workers |-> workers]

Strategy(kind, side, param) ==
    [kind |-> kind, token |-> "7", side |-> side, size |-> Decimal(25, 1),
     orderType |-> "FOK", param |-> param]

Other == <<[kind |-> "polymarket_ws", assets |-> <<"7", "8">>],
           [kind |-> "external_trade", assets |-> <<"9">>]>>

MCConfigs ==
    {Config(1, File, [private_key |-> "pk"], FALSE, <<>>,
            Strategy("threshold", "Buy", Decimal(5, 1))),
     Config(2, File, [private_key |-> "pk"], FALSE, <<>>,
            Strategy("spread", "Sell", Decimal(2, 2))),
     Config(1, [File EXCEPT !.api_key = Empty], <<>>, TRUE, Other,
            Strategy("threshold", "Sell", Decimal(45, 2))),
     Config(1, File, <<>>, FALSE, <<>>, Strategy("threshold", "Buy", Decimal(5, 1)))}

\* At the limit of the spread and of the threshold; and one-sided, with a digit
\* too many for an order.
AtLimit == [bid |-> Decimal(48, 2), ask |-> Decimal(50, 2)]
OneSided == [bid |-> None, ask |-> Decimal(4501, 4)]

MCTops == [asset \in {"7", "8"} |-> IF asset = "7" THEN {AtLimit, OneSided} ELSE {AtLimit}]
=============================================================================
