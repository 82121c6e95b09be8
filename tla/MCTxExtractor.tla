---------------------------- MODULE MCTxExtractor ----------------------------
(* A small app for TxExtractor: the proxy is its own LP token.               *)
EXTENDS TxExtractor

MCAddresses == {"0x0", "user", "helper", "proxy", "vault", "dai"}

Call(type, to, value, args, transfer) ==
  [CallType |-> type, To |-> to, Value |-> value, Args |-> args, Transfer |-> transfer]

\* a user calls the proxy directly, with ether or through a contract; the proxy uses a
\* vault and the token, calls back, and runs code of the vault as its own
MCCalls ==
  {Call("Call", "proxy", FALSE, {"helper", "proxy"}, FALSE),
   Call("Call", "proxy", TRUE, {}, FALSE),
   Call("Create", "proxy", FALSE, {}, FALSE),
   Call("Call", "helper", TRUE, {}, FALSE),
   Call("Call", "vault", FALSE, {}, FALSE),
   Call("Call", "dai", FALSE, {}, FALSE),
   Call("DelegateCall", "vault", FALSE, {}, FALSE),
   Call("StaticCall", "proxy", FALSE, {"vault"}, FALSE)}

Transfer(token, sender, to) == [token |-> token, sender |-> sender, to |-> to]
MCEvents ==
  {Transfer("proxy", "0x0", "user"), Transfer("proxy", "helper", "0x0"),
   Transfer("proxy", "user", "helper"),
   Transfer("dai", "user", "vault"), Transfer("dai", "proxy", "helper")}

\* block 10 is listed before block 9, which is listed for each of two proxies; the first
\* transaction is a deep one
MCTxs == {"10_0", "9_0", "8_0", "7_0"}
MCBlockOf == [t \in MCTxs |-> CASE t = "10_0" -> 10 [] t = "9_0" -> 9 [] t = "8_0" -> 8 [] t = "7_0" -> 7]
MCFiles == <<"10_0", "7_0", "9_0", "9_0">>
MCStakeFiles == <<"8_0">>
MCMaxCalls == [t \in MCTxs |-> IF t = "10_0" THEN 3 ELSE 1]
MCMaxTransfers == [t \in MCTxs |-> IF t = "10_0" THEN 2 ELSE 1]
=============================================================================
