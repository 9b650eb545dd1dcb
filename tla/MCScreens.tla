------------------------------ MODULE MCScreens ------------------------------
\* Small instances of Screens.
EXTENDS Screens

\* Mobile numbers, one with the country code inside; a number of ten digits and
\* one of nine.
Mobile == <<"0", "1", "0", "1", "2", "3", "4", "5", "6", "7", "8">>
Mobile82 == <<"0", "8", "2", "8", "2", "8", "2", "8", "2", "8", "2">>
Suwon == <<"0", "3", "1", "1", "2", "3", "4", "5", "6", "7">>
Seoul == <<"0", "2", "8", "2", "3", "4", "5", "6", "7">>

MCPhoneNumbers == {Mobile, Mobile82, Suwon, Seoul}

MCYears == 2020..2026
=============================================================================
