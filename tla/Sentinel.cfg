SPECIFICATION SentinelSpec
PROPERTY StormRaisesPosture
