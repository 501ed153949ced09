------------------------------ MODULE MCIcons -------------------------------
EXTENDS Icons

\* A reverse-DNS name, and one of a single word, whose file either may be drawn with.
MCIds == {<<<<"org", "lower">>, <<"gnome", "lower">>, <<"clocks", "as is">>>>,
          <<<<"clocks", "lower">>>>}
MCDirect == {<<<<"path", "/">>>>}

\* The decoder is evaluated once.
ASSUME Base64Assumption == Base64Exact
=============================================================================
