------------------------------- MODULE MCLunoWs -------------------------------
(* Small instances of LunoWs for TLC. *)
EXTENDS LunoWs, TLC

CONSTANTS c1, c2

\* format_symbol() and parse_symbol() on two markets: the first is in the table of
\* common pairs, the second is cut after its third letter.
Format == ("BTC/ZAR" :> "XBTZAR") @@ ("USDC/ZAR" :> "USDCZAR") @@ ("USD/CZAR" :> "USDCZAR")
Parse == ("XBTZAR" :> "BTC/ZAR") @@ ("USDCZAR" :> "USD/CZAR")

\* Book and trades of one market, and the book of another under a name that is lost.
BooksAndTrades == {<<"orderbook", "BTC/ZAR">>, <<"trades", "BTC/ZAR">>,
                   <<"orderbook", "USDC/ZAR">>}

Books == {<<"orderbook", "BTC/ZAR">>, <<"orderbook", "USDC/ZAR">>}
=============================================================================
