------------------------------- MODULE Orders -------------------------------
(***************************************************************************)
(* From a trigger to the signed request that leaves the process: the fixed- *)
(* point amounts and the order (clob_order.rs), its signature              *)
(* (clob_signer.rs), the body and the authenticated request                *)
(* (clob_request.rs, clob_auth.rs), and the credentials they use           *)
(* (pm-executor's config.rs, execution.rs and main.rs).  Operators only;    *)
(* TriggerPipeline sends what they build.                                  *)
(*                                                                         *)
(* A signature is the record of what it covers, and so is an HMAC.  The    *)
(* random salt, the fields of an order that are always zero, and the      *)
(* spelling of JSON and headers are left out.  An amount that cannot be had *)
(* is NoAmount.                                                            *)
(*                                                                         *)
(* A definition named X_Fault is X with a mistake the code could have made *)
(* in its place; nothing uses it.                                          *)
(***************************************************************************)
EXTENDS Strategies, SequencesExt

CONSTANTS
    Decimals,      \* USDC_DECIMALS
    MaxAmount,     \* u128::MAX
    TokenIds,      \* token ids that are decimal integers
    AddressOf      \* external: of each private key that parses, its address

ASSUME OrdersAssumption == Decimals \in 2..6 /\ MaxAmount \in Nat

Unit == 10^Decimals          \* BASE_UNIT_SCALE
Cent == 10^(Decimals - 2)
NoAmount == -1

Empty == ""

-----------------------------------------------------------------------------
\* Amounts.

\* Fault: the digits after the point are not scaled up.
ParseScaled_Unpadded(text) ==
    IF ~Parses(text) \/ text.places > Decimals THEN NoAmount
    ELSE (text.units \div 10^text.places) * Unit + (text.units % 10^text.places)

\* parse_scaled_decimal: refused are a malformed text, more digits after the point
\* than the scale has, and what overflows.
ParseScaled(text) ==
    IF ~Parses(text) \/ text.places > Decimals THEN NoAmount
    ELSE LET amount == ValueAt(text, Decimals)
         IN  IF amount > MaxAmount THEN NoAmount ELSE amount

\* price * size, the product checked and its fraction of a base unit dropped.
UsdcAmount(price, size) ==
    LET p == ParseScaled(price) s == ParseScaled(size)
    IN  IF p = NoAmount \/ s = NoAmount THEN NoAmount
        ELSE IF p * s > MaxAmount THEN NoAmount
        ELSE (p * s) \div Unit

\* compute_amounts: who buys gives USDC for tokens.
ComputeAmounts(price, size, side) ==
    LET usdc == UsdcAmount(price, size) tokens == ParseScaled(size)
    IN  IF side = "Buy" THEN [maker |-> usdc, taker |-> tokens]
        ELSE [maker |-> tokens, taker |-> usdc]

-----------------------------------------------------------------------------
\* The account.

\* apply_env_overrides, of the credentials; signer_address, which nothing reads, is
\* not among them.
Overridden(file, env) ==
    [f \in DOMAIN file |-> IF f \in DOMAIN env THEN env[f] ELSE file[f]]

Required == {"private_key", "api_key", "api_secret", "passphrase", "maker_address"}

\* build_credentials succeeds: nothing is asked of a dry run.
HasCredentials(creds, dryRun) ==
    \/ dryRun
    \/ /\ \A f \in Required : creds[f] # Empty
       /\ creds["private_key"] \in DOMAIN AddressOf

\* L2Credentials, as build_credentials fills them in.
L2Credentials(creds) ==
    [apiKey |-> creds["api_key"], secret |-> creds["api_secret"],
     passphrase |-> creds["passphrase"], address |-> creds["maker_address"]]

\* SignerParams, as main fills them in.
SignerParams(config) ==
    [key |-> config.creds["private_key"], maker |-> config.creds["maker_address"],
     signer |-> AddressOf[config.creds["private_key"]], feeRateBps |-> config.feeRateBps,
     negRisk |-> config.negRisk, signatureType |-> "Poly",
     owner |-> config.creds["api_key"]]

-----------------------------------------------------------------------------
\* The request.

BuildsOrder(trigger) ==
    /\ UsdcAmount(trigger.price, trigger.size) # NoAmount
    /\ trigger.token \in TokenIds

\* build_order.
Order(trigger, sp) ==
    LET amounts == ComputeAmounts(trigger.price, trigger.size, trigger.side)
    IN  [maker |-> sp.maker, signer |-> sp.signer, token |-> trigger.token,
         makerAmount |-> amounts.maker, takerAmount |-> amounts.taker,
         feeRateBps |-> sp.feeRateBps, side |-> trigger.side,
         signatureType |-> sp.signatureType]

\* make_domain: the contract a signature is good for.
Contract(negRisk) == IF negRisk THEN "NEG_RISK_EXCHANGE" ELSE "EXCHANGE"

\* sign_order.
Sign(order, sp) == [key |-> sp.key, covers |-> order, contract |-> Contract(sp.negRisk)]

\* SignedOrderPayload::new.
Payload(order, signature, orderType, owner) ==
    [order |-> order, signature |-> signature, orderType |-> orderType, owner |-> owner]

\* build_l2_headers, with the HMAC of the method, the path and the body.
L2Headers(creds, method, path, body) ==
    [address |-> creds.address, apiKey |-> creds.apiKey, passphrase |-> creds.passphrase,
     signature |-> [secret |-> creds.secret, covers |-> <<method, path, body>>]]

\* The steps of sign_and_dispatch before the request is sent.
OrderRequest(trigger, config) ==
    LET sp == SignerParams(config)
        order == Order(trigger, sp)
        body == Payload(order, Sign(order, sp), trigger.orderType, sp.owner)
    IN  [headers |-> L2Headers(L2Credentials(config.creds), "POST", "/order", body),
         body |-> body]

-----------------------------------------------------------------------------
\* The start of the process.

\* main's run gets as far as wiring its channels: credentials and strategy can be
\* built and, live, the maker's address parses, the exchange has accepted the
\* credentials and the pool is warm.  Those two answers are not the code's to
\* decide and are taken as given: without them the process ends.
Starts(config) ==
    /\ HasCredentials(config.creds, config.dryRun)
    /\ Buildable(config.strategy)

\* push_unique_asset_id.
PushUnique(assets, asset) == IF asset \in ToSet(assets) THEN assets ELSE Append(assets, asset)

\* resolved_subscription_asset_ids: those configured, those of the bindings to the
\* exchange's WebSocket, and the strategy's.
SubscribedAssets(config) ==
    LET bound == FoldLeft(LAMBDA assets, b :
                              IF b.kind = "polymarket_ws" THEN FoldLeft(PushUnique, assets, b.assets)
                              ELSE assets,
                          config.assetIds, config.bindings)
    IN  IF config.strategy.token = Empty THEN bound ELSE PushUnique(bound, config.strategy.token)

-----------------------------------------------------------------------------

\* The cents check_and_record may count for a trigger: the product of two f64 is
\* cut to whole cents, and may fall just short of one (CircuitBreaker).  A text
\* that does not parse counts as zero.
CentsCounted(trigger) ==
    IF ~Parses(trigger.price) \/ ~Parses(trigger.size) THEN {0}
    ELSE LET scale == 10^trigger.price.places * 10^trigger.size.places
             product == trigger.price.units * trigger.size.units * 100
             cents == product \div scale
         IN  IF product > 0 /\ product % scale = 0 THEN {cents, cents - 1} ELSE {cents}
=============================================================================
