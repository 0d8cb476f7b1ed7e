---------------------------- MODULE MCNetworkStatus --------------------------
(* Three queries on two networks with a URL, one of which may be silent,   *)
(* and one without: the least for a hit after an overwritten fetch.        *)
EXTENDS NetworkStatus

CONSTANTS testnet, mainnet, futurenet

MCNetworks == {testnet, mainnet, futurenet}
MCConfigured == {testnet, mainnet}
MCResponsive == {testnet, futurenet}
=============================================================================
