------------------------------- MODULE MCMedia -------------------------------
EXTENDS Media
MCOrder == <<"other", "firefox", "mpv">>
=============================================================================
