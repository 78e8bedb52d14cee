--------------------------------- MODULE MCLed ---------------------------------
EXTENDS Led

MCOrder == <<"LED_4_RED", "LED_4_GREEN", "LED_5_RED", "LED_5_GREEN">>
==============================================================================
