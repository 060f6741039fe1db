------------------------------ MODULE MCMarket ------------------------------
EXTENDS StorageMarket

CONSTANTS c1, c2, p1, p2, root

MCAddress == {c1, c2, p1, p2, root}
MCProviders == {p1, p2}

Deal(client, provider, start, end, price, verified) ==
    [client |-> client, provider |-> provider, start |-> start, end |-> end, price |-> price,
     client_collateral |-> 1, provider_collateral |-> 1, verified |-> verified, piece_size |-> 2]

MCProposals == {Deal(c1, p1, 1, 4, 1, FALSE), Deal(c1, p1, 2, 5, 1, TRUE), Deal(c1, p2, 1, 4, 1, FALSE)}

=============================================================================
