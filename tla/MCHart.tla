------------------------------- MODULE MCHart -------------------------------
EXTENDS Hart

MCPlain == {"mie", "mip", "mideleg", "mtvec", "stvec"}
\* SIE, MIE, XS, UXL, ASID and MODE of Csrs
MCValues == {{1, 44, 63}, {3, 15, 33, 63}}
MCZimms == {{1}}
MCMarkers == {<<"a", "b">>, <<"b">>}
=============================================================================
