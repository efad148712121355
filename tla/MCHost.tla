-------------------------------- MODULE MCHost --------------------------------
EXTENDS HostProperties

=============================================================================
