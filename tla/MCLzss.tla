-------------------------------- MODULE MCLzss --------------------------------
EXTENDS Lzss
===============================================================================
